---------------------------- MODULE Spec2Model ----------------------------
(***************************************************************************)
(* A model of ecash-sdk-core: the transaction pipeline of EasyCashClient   *)
(* (client.rs), the TTL cache with its background sweeper (cache.rs), the  *)
(* fixed-window rate limiter (rate_limiter.rs), the metrics aggregator     *)
(* (monitoring.rs) and the route selection of the agent negotiator         *)
(* (agent/mod.rs).                                                         *)
(*                                                                         *)
(* Time is a global clock `now` counted in ticks; Instant::now() reads it. *)
(* Tasks are the elements of Procs; every await point and every access to  *)
(* shared state is a separate step, so that tasks interleave where the     *)
(* code lets them.                                                         *)
(***************************************************************************)
EXTENDS Integers, Sequences, FiniteSets, TLC

(***************************************************************************)
(* Bounds of the model.                                                    *)
(***************************************************************************)
MaxTime == 2            \* the clock stops at this tick
MaxInvocations == 2     \* execute_transaction calls per behaviour
MaxOps == 3             \* direct cache calls per behaviour
MaxChecks == 4          \* limiter calls per behaviour
Ttl == 1                \* the cache's ttl, in ticks (config.cache_ttl > 0)
MaxMaxRequests == 2     \* RateLimiterConfig.max_requests ranges over 0..this
MaxWindow == 2          \* RateLimiterConfig.window ranges over 0..this
MaxRecords == 3         \* direct record_transaction and get_stats calls per behaviour
MaxQuotes == 3          \* quotes in a list given to select_best_route
MaxConcurrent == 3      \* execute_transaction calls per behaviour of two callers

Procs == {"t1", "t2"}
Scenarios == {"pipeline", "cache", "limiter", "metrics", "select", "concurrent"}

(***************************************************************************)
(* types.rs: requests and responses.                                       *)
(***************************************************************************)
GoodAddress == "0x742d35Cc6634C0532925a3b844Bc9e7595f0bEb0"
BadAddress == "0x742d35Cc6634C0532925a3b844Bc9e7595f0bE"
NoneStr == "<none>"     \* Option::None of an Option<String> / Option<ChainId>

TransactionRequest(ref, it, amt, asset, rcp, src, tgt, sh) ==
    [reference_id |-> ref, intent_type |-> it, amount |-> amt, asset |-> asset,
     recipient |-> rcp, source_chain |-> src, target_chain |-> tgt,
     is_shielded |-> sh]

\* The requests callers submit: two valid ones that agree on (intent_type,
\* amount, asset) and differ in everything else, a valid one with another
\* key, and two that the validator rejects for different reasons.
Requests ==
    { TransactionRequest("ref_001", "Transfer", "1000.00", "USDC", GoodAddress,
                         "Base", NoneStr, FALSE),
      TransactionRequest("ref_002", "Transfer", "1000.00", "USDC", NoneStr,
                         "Solana", "Ethereum", TRUE),
      TransactionRequest("ref_003", "Swap", "100.50", "USDC", GoodAddress,
                         "Base", "Ethereum", TRUE),
      TransactionRequest("ref_004", "Transfer", "", "USDC", NoneStr,
                         "Base", NoneStr, FALSE),
      TransactionRequest("ref_005", "Transfer", "1000.00", "USDC", BadAddress,
                         "Base", NoneStr, TRUE) }

\* The requests two concurrent callers submit: the two valid ones that agree
\* on (intent_type, amount, asset), one caller each.
SameKeyRequests ==
    [t1 |-> {r \in Requests : r.reference_id = "ref_001"},
     t2 |-> {r \in Requests : r.reference_id = "ref_002"}]

IntentType_as_str(it) ==
    CASE it = "Transfer" -> "transfer"
      [] it = "Swap" -> "swap"
      [] it = "Shield" -> "shield"

ChainId_as_str(c) ==
    CASE c = "Ethereum" -> "ethereum"
      [] c = "Base" -> "base"
      [] c = "Solana" -> "solana"

TransactionResponse(h, st, bh, fee) ==
    [tx_hash |-> h, status |-> st, block_height |-> bh, fee_used |-> fee]

NoResponse == TransactionResponse(0, "", 0, "")

(***************************************************************************)
(* validator.rs.  The two regular expressions and the f64 parse are given  *)
(* by their results on the strings of the model.                           *)
(***************************************************************************)
ADDRESS_REGEX_is_match(a) == a = GoodAddress

AMOUNT_REGEX_is_match(a) == a \in {"1000.00", "100.50", "0"}

\* amount.parse::<f64>() compared with 0.0 and 1e15: "pos", "zero" or "big"
AmountMagnitude(a) ==
    CASE a \in {"1000.00", "100.50"} -> "pos"
      [] a = "0" -> "zero"
      [] OTHER -> "nan"

validate_address_Lax(a) == "ok"

validate_address(a) == IF ~ADDRESS_REGEX_is_match(a) THEN "invalid address format" ELSE "ok"

validate_amount(a) ==
    IF a = "" THEN "amount cannot be empty"
    ELSE IF ~AMOUNT_REGEX_is_match(a) THEN "invalid amount format"
    ELSE IF AmountMagnitude(a) = "zero" THEN "amount must be positive"
    ELSE IF AmountMagnitude(a) = "big" THEN "amount exceeds maximum allowed value"
    ELSE "ok"

validate_chain(c) == IF c \in {"Ethereum", "Base", "Solana"} THEN "ok" ELSE "unsupported"

validate_transaction_request(req) ==
    IF validate_amount(req.amount) # "ok" THEN "amount validation failed"
    ELSE IF validate_chain(req.source_chain) # "ok" THEN "source chain validation failed"
    ELSE IF req.target_chain # NoneStr /\ validate_chain(req.target_chain) # "ok"
         THEN "target chain validation failed"
    ELSE IF req.recipient # NoneStr /\ validate_address(req.recipient) # "ok"
         THEN "recipient validation failed"
    ELSE "ok"

(***************************************************************************)
(* client.rs: the cache key, format!("{}-{}-{}", intent, amount, asset).   *)
(* Neither the intent name nor a validated amount holds a '-', so the      *)
(* formatted string determines the triple; the key is kept as the triple.  *)
(***************************************************************************)
cache_key_Full(req) ==
    <<IntentType_as_str(req.intent_type), req.amount, req.asset, req.recipient,
      req.source_chain, req.target_chain>>

cache_key(req) == <<IntentType_as_str(req.intent_type), req.amount, req.asset>>

Keys == {cache_key(r) : r \in {q \in Requests : validate_transaction_request(q) = "ok"}}

(***************************************************************************)
(* Fee strings "<number> <symbol>".  split_whitespace().next() and         *)
(* parse::<f64>() are given by their results on the strings of the model;  *)
(* a parsed fee is kept in hundredths.                                     *)
(***************************************************************************)
NoToken == "<no token>"
NoParse == -1

FirstToken(s) ==
    CASE s = "0.05 USDC" -> "0.05"
      [] s = "0.03 USDC" -> "0.03"
      [] s = "0.02 USDC" -> "0.02"
      [] s = "free" -> "free"
      [] s = "USDC 0.01" -> "USDC"
      [] OTHER -> NoToken          \* "" and all-blank strings

ParseF64(tok) ==
    CASE tok = "0.05" -> 5
      [] tok = "0.03" -> 3
      [] tok = "0.02" -> 2
      [] OTHER -> NoParse

\* s.split_whitespace().next().and_then(|s| s.parse::<f64>().ok()).unwrap_or(d)
FeeOr(s, d) ==
    IF FirstToken(s) = NoToken \/ ParseF64(FirstToken(s)) = NoParse
    THEN d ELSE ParseF64(FirstToken(s))

F64Max == 1000000       \* stands for f64::MAX, above every fee of the model

(***************************************************************************)
(* agent/mod.rs: quotes and route selection.  security_score is kept in    *)
(* hundredths, estimated_time in seconds.                                  *)
(***************************************************************************)
RouteQuote(id, fee, t, route, sec) ==
    [agent_id |-> id, estimated_fee |-> fee, estimated_time |-> t,
     route |-> route, security_score |-> sec]

NoQuote == RouteQuote("", "", 0, <<>>, 0)

\* MockAgentNegotiator::request_quotes
MockQuotes(req) ==
    LET src == ChainId_as_str(req.source_chain)
        tgt == IF req.target_chain = NoneStr THEN src
               ELSE ChainId_as_str(req.target_chain)
    IN  << RouteQuote("agent-001", "0.05 USDC", 15, <<src, tgt>>, 98),
           RouteQuote("agent-002", "0.03 USDC", 30, <<src, "polygon", tgt>>, 85) >>

Cmp(x, y) == IF x < y THEN "Less" ELSE IF x > y THEN "Greater" ELSE "Equal"

\* The balanced score 0.5*sec + 0.3/(time+1) + 0.2/(fee+1), compared exactly:
\* with s, f in hundredths the score is
\*   (s*(t+1)*(f+100) + 60*(f+100) + 4000*(t+1)) / (200*(t+1)*(f+100)).
BalancedFee_Zero(q) == FeeOr(q.estimated_fee, 0)

BalancedFee(q) == FeeOr(q.estimated_fee, 100)

\* score_a.partial_cmp(&score_b): the sign of score_a - score_b, computed as
\* the sum of the three differences over the common denominator.
CmpBalanced(a, b) ==
    LET T == (a.estimated_time + 1) * (b.estimated_time + 1)
        F == (BalancedFee(a) + 100) * (BalancedFee(b) + 100)
        d == (a.security_score - b.security_score) * T * F
             + 60 * (b.estimated_time - a.estimated_time) * F
             + 4000 * (BalancedFee(b) - BalancedFee(a)) * T
    IN  Cmp(d, 0)

CmpSpeed(a, b) == Cmp(a.estimated_time, b.estimated_time)
CmpCost_Zero(a, b) == Cmp(FeeOr(a.estimated_fee, 0), FeeOr(b.estimated_fee, 0))

CmpCost(a, b) == Cmp(FeeOr(a.estimated_fee, F64Max), FeeOr(b.estimated_fee, F64Max))
CmpSecurity_ByTime(a, b) == Cmp(b.estimated_time, a.estimated_time)

CmpSecurity(a, b) == Cmp(a.security_score, b.security_score)

\* a match that ignores the case of the preference
Compare_CaseFolded(pref, a, b) ==
    CASE pref \in {"speed", "Speed"} -> CmpSpeed(a, b)
      [] pref = "cost" -> CmpCost(a, b)
      [] pref = "security" -> CmpSecurity(a, b)
      [] OTHER -> CmpBalanced(a, b)

Compare(pref, a, b) ==
    CASE pref = "speed" -> CmpSpeed(a, b)
      [] pref = "cost" -> CmpCost(a, b)
      [] pref = "security" -> CmpSecurity(a, b)
      [] OTHER -> CmpBalanced(a, b)

\* Iterator::min_by keeps the accumulated element unless it compares Greater
\* than the next one; Iterator::max_by keeps it only if it compares Greater.
RECURSIVE MinByFrom(_, _, _, _)
MinByFrom(pref, qs, i, acc) ==
    IF i > Len(qs) THEN acc
    ELSE MinByFrom(pref, qs, i + 1,
                   IF Compare(pref, acc, qs[i]) = "Greater" THEN qs[i] ELSE acc)

RECURSIVE MaxByFrom(_, _, _, _)
MaxByFrom(pref, qs, i, acc) ==
    IF i > Len(qs) THEN acc
    ELSE MaxByFrom(pref, qs, i + 1,
                   IF Compare(pref, acc, qs[i]) = "Greater" THEN acc ELSE qs[i])

SelectErr_NoRoute(e) == [ok |-> FALSE, value |-> NoQuote, err |-> "no suitable route found"]

SelectOk_Trimmed(q) ==
    [ok |-> TRUE, value |-> [q EXCEPT !.estimated_fee = FirstToken(@)], err |-> ""]

SelectOk(q) == [ok |-> TRUE, value |-> q, err |-> ""]
SelectErr(e) == [ok |-> FALSE, value |-> NoQuote, err |-> e]

select_best_route(quotes, preference) ==
    IF Len(quotes) = 0 THEN SelectErr("no quotes available")
    ELSE IF preference \in {"speed", "cost"}
         THEN SelectOk(MinByFrom(preference, quotes, 2, quotes[1]))
         ELSE SelectOk(MaxByFrom(preference, quotes, 2, quotes[1]))

\* The quotes and preferences given to select_best_route when it is called
\* directly: two quotes of the mock negotiator, quotes that tie with them
\* on time, security or everything, and quotes whose fee does not parse.
QuotePool ==
    { RouteQuote("agent-001", "0.05 USDC", 15, <<"base", "base">>, 98),
      RouteQuote("agent-002", "0.03 USDC", 30, <<"base", "polygon", "base">>, 85),
      RouteQuote("agent-003", "0.02 USDC", 30, <<"base">>, 85),
      RouteQuote("agent-004", "free", 15, <<"base">>, 98),
      RouteQuote("agent-005", "USDC 0.01", 30, <<"base">>, 70),
      RouteQuote("agent-006", "0.05 USDC", 15, <<"base", "base">>, 98) }

QuoteLists == UNION {[1..n -> QuotePool] : n \in 0..MaxQuotes}

Preferences == {"speed", "cost", "security", "balanced", "cheapest", "", "Speed"}

NoSelection == [ok |-> FALSE, value |-> NoQuote, err |-> "<pending>"]
NoSelect == [quotes |-> << >>, preference |-> "", out |-> NoSelection]


(***************************************************************************)
(* config.rs: the switches of SdkConfig the pipeline reads.  Every         *)
(* combination passes SdkConfig::validate.                                 *)
(***************************************************************************)
SdkConfigs ==
    [enable_zk_proofs : BOOLEAN, enable_metrics : BOOLEAN, enable_caching : BOOLEAN]

default_config ==
    [enable_zk_proofs |-> TRUE, enable_metrics |-> TRUE, enable_caching |-> TRUE]

\* the configuration of the client two concurrent callers share
caching_config ==
    [enable_zk_proofs |-> FALSE, enable_metrics |-> FALSE, enable_caching |-> TRUE]

(***************************************************************************)
(* The state.                                                              *)
(***************************************************************************)
VARIABLES
    scenario,       \* what the callers of this behaviour exercise
    now,            \* the clock read by Instant::now()
    cfg,            \* EasyCashClient.config
    items,          \* Cache.items: the map key -> CacheEntry
    shard,          \* the DashMap shard each key hashes to
    readers,        \* per shard, the tasks holding a read guard (a Ref) on it
    sweeper,        \* the cleanup task spawned by Cache::new
    metrics,        \* Metrics: the four atomic counters and the fee sum
    pc,             \* per task, where it is
    inv,            \* per task, the locals of execute_transaction
    cop,            \* per task, the locals of a cache call
    mop,            \* per task, the locals of record_transaction
    stats,          \* per task, the locals of get_stats
    recorded,       \* what the record_transaction calls made so far add up to
    sel,            \* a direct call of select_best_route: arguments and result
    uuids,          \* how many Uuid::new_v4() values have been drawn
    calls,          \* how many top-level calls have been started
    lcfg,           \* RateLimiter.config
    lim,            \* RateLimiter: window_start, request_count, and the
                    \* task holding the mutex of window_start
    lop,            \* per task, the locals of a limiter call
    win,            \* history: the check() calls of the current window
    dropped,        \* whether the owner of the Cache has dropped it
    settled,        \* history: the fee magnitudes of the settlements made, summed
    written         \* history: per key, the response the last cache write of
                    \* an invocation stored under it

limVars == <<lcfg, lim, lop, win>>

vars == <<scenario, now, cfg, items, shard, readers, sweeper, metrics,
          pc, inv, cop, mop, uuids, calls, lcfg, lim, lop, win, stats, recorded, sel,
          dropped, settled, written>>

\* The shards of the map (a DashMap has at least four; two are modelled),
\* and the ways the hasher can spread the keys over them, up to the order
\* in which two keys in different shards are met by a scan.
Shards == {1, 2}
LastShard == Cardinality(Shards)
ShardMaps ==
    {f \in [Keys -> Shards] :
       \A r \in Requests : r.reference_id = "ref_003" => f[cache_key(r)] = 1}
OneShard == [k \in Keys |-> 1]

CacheEntry(v, e) == [value |-> v, expiration |-> e]

None == [some |-> FALSE, value |-> NoResponse]
Some(v) == [some |-> TRUE, value |-> v]

NoKey == <<>>
NoCop == [key |-> NoKey, value |-> NoResponse, expiration |-> 0, ret |-> None,
          caller |-> ""]
NoMop == [success |-> FALSE, fee |-> 0, latency |-> 0, caller |-> ""]

Ok(resp) == [ok |-> TRUE, code |-> "", value |-> resp]
Err(code) == [ok |-> FALSE, code |-> code, value |-> NoResponse]
NoResult == [ok |-> FALSE, code |-> "<pending>", value |-> NoResponse]

NoRequest == TransactionRequest("", "", "", "", NoneStr, "", NoneStr, FALSE)
NoInv == [req |-> NoRequest, start_time |-> 0, quotes |-> <<>>, best |-> NoQuote,
          resp |-> NoResponse, result |-> NoResult, log |-> <<>>, recs |-> <<>>]

\* Cache::new: an empty map, and the cleanup task whose interval first
\* completes at once.
Cache_new == [pc |-> "sleep", now |-> 0, next |-> 0, idx |-> 1]
NoSweeper == [pc |-> "absent", now |-> 0, next |-> 0, idx |-> 1]

\* rate_limiter.rs: the configurations (max_requests: u32 and window:
\* Duration may both be zero), and RateLimiter::new
RateLimiterConfigs ==
    [max_requests : 0..MaxMaxRequests, window : 0..MaxWindow, enabled : BOOLEAN]
RateLimiterConfig_default ==
    [max_requests |-> MaxMaxRequests, window |-> MaxWindow, enabled |-> TRUE]
NoTask == "<nobody>"
RateLimiter_new == [window_start |-> 0, request_count |-> 0, holder |-> NoTask]
NoLop == [result |-> "", current |-> 0, elapsed |-> 0, prior |-> 0,
          count0 |-> 0, start0 |-> 0, rolled |-> FALSE]

Metrics_new == [total_transactions |-> 0, successful_transactions |-> 0,
                failed_transactions |-> 0, total_fee_paid |-> 0,
                total_latency_ms |-> 0]

\* an f64 quotient of two counters, kept as a fraction
Zero == [num |-> 0, den |-> 1]
NoStats == [total |-> 0, successful |-> 0, failed |-> 0, total_fee |-> 0,
            total_latency |-> 0, average_latency_ms |-> Zero, success_rate |-> Zero]
NoneRecorded == [n |-> 0, successful |-> 0, failed |-> 0, fee |-> 0, latency_ms |-> 0]

Init ==
    /\ scenario \in Scenarios
    /\ now = 0
    /\ cfg \in IF scenario = "pipeline" THEN SdkConfigs
              ELSE IF scenario = "concurrent" THEN {caching_config}
              ELSE {default_config}
    /\ items = << >>
    /\ shard \in IF scenario = "cache" THEN ShardMaps ELSE {OneShard}
    /\ readers = [s \in Shards |-> {}]
    /\ sweeper = IF scenario = "cache"
                    \/ (scenario \in {"pipeline", "concurrent"} /\ cfg.enable_caching)
                 THEN Cache_new ELSE NoSweeper
    /\ metrics = Metrics_new
    /\ pc = [p \in Procs |-> "idle"]
    /\ inv = [p \in Procs |-> NoInv]
    /\ cop = [p \in Procs |-> NoCop]
    /\ mop = [p \in Procs |-> NoMop]
    /\ stats = [p \in Procs |-> NoStats]
    /\ recorded = NoneRecorded
    /\ sel \in IF scenario = "select"
               THEN [quotes : QuoteLists, preference : Preferences, out : {NoSelection}]
               ELSE {NoSelect}
    /\ uuids = 0
    /\ calls = 0
    /\ lcfg \in IF scenario = "limiter" THEN RateLimiterConfigs
               ELSE {RateLimiterConfig_default}
    /\ lim = RateLimiter_new
    /\ lop = [p \in Procs |-> NoLop]
    /\ win = [calls |-> 0, admitted |-> 0, admits |-> << >>, resets |-> 0]
    /\ dropped = FALSE
    /\ settled = 0
    /\ written = << >>

(***************************************************************************)
(* The clock.                                                              *)
(***************************************************************************)
Tick ==
    /\ now < MaxTime
    /\ now' = now + 1
    /\ UNCHANGED <<dropped, settled, written, sel, stats, recorded, limVars, scenario, cfg, items, shard, readers, sweeper, metrics,
                   pc, inv, cop, mop, uuids, calls>>

(***************************************************************************)
(* cache.rs.  A DashMap call locks the shard of its key: get takes the     *)
(* read lock and keeps it for as long as the returned Ref lives; insert,   *)
(* remove and retain take the write lock, which waits until the shard has  *)
(* no reader.  Writers hold the lock within one step only.                 *)
(***************************************************************************)
Has(k) == k \in DOMAIN items

\* an insert that keeps the entry a key already has
MapInsert_KeepFirst(m, k, e) ==
    [x \in DOMAIN m \cup {k} |-> IF x \in DOMAIN m THEN m[x] ELSE e]

\* an insert that gives a key's entry the new value and leaves its expiry
MapInsert_KeepExpiry(m, k, e) ==
    [x \in DOMAIN m \cup {k} |->
       IF x # k THEN m[x]
       ELSE IF x \in DOMAIN m THEN [e EXCEPT !.expiration = m[x].expiration]
       ELSE e]

MapInsert(m, k, e) == [x \in DOMAIN m \cup {k} |-> IF x = k THEN e ELSE m[x]]
MapRemove(m, k) == [x \in DOMAIN m \ {k} |-> m[x]]

Fresh_Early(t, e) == t + 1 < e.expiration

\* the test of get: Instant::now() < entry.expiration
Fresh(t, e) == t < e.expiration

Retained_Stale(t, e) == t + Ttl < e.expiration

\* the predicate of retain in the cleanup task: now < entry.expiration, with
\* the now the task read after its tick
Retained(t, e) == t < e.expiration

\* Cache::set, first half: the entry is built, expiration = now + ttl
SetArgs(p) ==
    /\ pc[p] = "set"
    /\ cop' = [cop EXCEPT ![p].expiration = now + Ttl]
    /\ pc' = [pc EXCEPT ![p] = "set_insert"]
    /\ UNCHANGED <<dropped, settled, written, sel, stats, recorded, limVars, scenario, now, cfg, items, shard, readers, sweeper, metrics,
                   inv, mop, uuids, calls>>

\* Cache::set, second half: DashMap::insert
SetInsert(p) ==
    /\ pc[p] = "set_insert"
    /\ readers[shard[cop[p].key]] = {}
    /\ items' = MapInsert(items, cop[p].key,
                          CacheEntry(cop[p].value, cop[p].expiration))
    /\ pc' = [pc EXCEPT ![p] = "set_done"]
    /\ cop' = [cop EXCEPT ![p].expiration = 0]
    /\ written' = IF cop[p].caller = "execute"
                  THEN (cop[p].key :> cop[p].value) @@ written ELSE written
    /\ UNCHANGED <<dropped, settled, sel, stats, recorded, limVars, scenario, now, cfg, shard, readers, sweeper, metrics,
                   inv, mop, uuids, calls>>

\* Cache::get, self.items.get(key): None for an absent key, else a Ref that
\* keeps the shard read-locked
GetLookup(p) ==
    /\ pc[p] = "get"
    /\ IF Has(cop[p].key)
       THEN /\ readers' = [readers EXCEPT ![shard[cop[p].key]] = @ \cup {p}]
            /\ pc' = [pc EXCEPT ![p] = "get_check"]
            /\ cop' = cop
       ELSE /\ cop' = [cop EXCEPT ![p].ret = None]
            /\ pc' = [pc EXCEPT ![p] = "get_done"]
            /\ readers' = readers
    /\ UNCHANGED <<dropped, settled, written, sel, stats, recorded, limVars, scenario, now, cfg, items, shard, sweeper, metrics,
                   inv, mop, uuids, calls>>

\* Cache::get, the closure: a fresh entry is cloned and the Ref dropped; for
\* an expired one the closure goes on to self.items.remove(key) with the
\* Ref still alive
GetCheck(p) ==
    /\ pc[p] = "get_check"
    /\ IF Fresh(now, items[cop[p].key])
       THEN /\ cop' = [cop EXCEPT ![p].ret = Some(items[cop[p].key].value)]
            /\ readers' = [readers EXCEPT ![shard[cop[p].key]] = @ \ {p}]
            /\ pc' = [pc EXCEPT ![p] = "get_done"]
       ELSE /\ cop' = cop
            /\ readers' = readers
            /\ pc' = [pc EXCEPT ![p] = "get_remove"]
    /\ UNCHANGED <<dropped, settled, written, sel, stats, recorded, limVars, scenario, now, cfg, items, shard, sweeper, metrics,
                   inv, mop, uuids, calls>>

\* DashMap::remove, called by Cache::delete and by the closure of Cache::get.
\* In get the caller itself is a reader of the shard, so the write lock is
\* never granted there; the step is taken by delete only.
Remove(p) ==
    /\ pc[p] \in {"delete", "get_remove"}
    /\ readers[shard[cop[p].key]] = {}
    /\ items' = IF Has(cop[p].key) THEN MapRemove(items, cop[p].key) ELSE items
    /\ pc' = [pc EXCEPT ![p] = IF pc[p] = "delete" THEN "delete_done" ELSE "get_done"]
    /\ cop' = [cop EXCEPT ![p].ret = None]
    /\ UNCHANGED <<dropped, settled, written, sel, stats, recorded, limVars, scenario, now, cfg, shard, readers, sweeper, metrics,
                   inv, mop, uuids, calls>>

\* The cleanup task: interval.tick() completes at next, then the task reads
\* the clock; the following tick is due one ttl after this one was due.
SweepTick ==
    /\ sweeper.pc = "sleep"
    /\ now >= sweeper.next
    /\ sweeper' = [pc |-> "scan", now |-> now, next |-> sweeper.next + Ttl, idx |-> 1]
    /\ UNCHANGED <<dropped, settled, written, sel, stats, recorded, limVars, scenario, now, cfg, items, shard, readers, metrics,
                   pc, inv, cop, mop, uuids, calls>>

\* The cleanup task: retain visits the shards in order, write-locking each
\* and keeping the entries with now < expiration.
SweepShard ==
    /\ sweeper.pc = "scan"
    /\ readers[sweeper.idx] = {}
    /\ items' = [k \in {x \in DOMAIN items :
                          shard[x] # sweeper.idx \/ Retained(sweeper.now, items[x])}
                 |-> items[k]]
    /\ sweeper' = IF sweeper.idx = LastShard
                  THEN [sweeper EXCEPT !.pc = "sleep", !.now = 0, !.idx = 1]
                  ELSE [sweeper EXCEPT !.idx = @ + 1]
    /\ UNCHANGED <<dropped, settled, written, sel, stats, recorded, limVars, scenario, now, cfg, shard, readers, metrics,
                   pc, inv, cop, mop, uuids, calls>>

\* The response a caller of the cache scenario stores with its n-th call.
ValueOf(n) == TransactionResponse(n, "confirmed", 1948201, "0.05 USDC")

\* A task calls cache.set(k, v), cache.get(k) or cache.delete(k); its
\* previous call, if any, has returned.
CacheCall(p) ==
    /\ scenario = "cache"
    /\ ~dropped
    /\ pc[p] \in {"idle", "set_done", "get_done", "delete_done"}
    /\ calls < MaxOps
    /\ calls' = calls + 1
    /\ \E k \in Keys :
         \/ /\ cop' = [cop EXCEPT ![p] = [NoCop EXCEPT !.key = k,
                                                       !.value = ValueOf(calls + 1),
                                                       !.caller = "direct"]]
            /\ pc' = [pc EXCEPT ![p] = "set"]
         \/ /\ cop' = [cop EXCEPT ![p] = [NoCop EXCEPT !.key = k, !.caller = "direct"]]
            /\ pc' = [pc EXCEPT ![p] = "get"]
         \/ /\ cop' = [cop EXCEPT ![p] = [NoCop EXCEPT !.key = k, !.caller = "direct"]]
            /\ pc' = [pc EXCEPT ![p] = "delete"]
    /\ UNCHANGED <<dropped, settled, written, sel, stats, recorded, limVars, scenario, now, cfg, items, shard, readers, sweeper, metrics,
                   inv, mop, uuids>>

NextCache ==
    \/ Tick
    \/ SweepTick
    \/ SweepShard
    \/ \E p \in Procs :
         \/ CacheCall(p)
         \/ SetArgs(p)
         \/ SetInsert(p)
         \/ GetLookup(p)
         \/ GetCheck(p)
         \/ Remove(p)

InitCache == Init /\ scenario = "cache"
SpecCache == InitCache /\ [][NextCache]_vars

\* A task that is not blocked goes on, and so does the cleanup task: a call
\* stops only where it waits for a lock.
FairCache ==
    /\ \A p \in Procs :
         WF_vars(SetArgs(p) \/ SetInsert(p) \/ GetLookup(p) \/ GetCheck(p) \/ Remove(p))
    /\ WF_vars(SweepShard)
SpecCacheFair == SpecCache /\ FairCache


\* The runtime lives on: the clock advances and the interval of the cleanup
\* task fires when it is due.
FairSweep == FairCache /\ WF_vars(Tick) /\ WF_vars(SweepTick)
SpecCacheLive == SpecCache /\ FairSweep

(***************************************************************************)
(* cache.rs: the end of a Cache.  Cache has no Drop impl and keeps no      *)
(* handle of the task it spawned: dropping it drops its Arc of the map and *)
(* its ttl, nothing else.  The task owns the clone of the Arc it was given *)
(* and leaves its loop nowhere.                                            *)
(***************************************************************************)
\* Arc::strong_count of the map: the Cache, while it lives, and the task
strong_count ==
    (IF sweeper.pc = "absent" \/ dropped THEN 0 ELSE 1)
    + (IF sweeper.pc \in {"sleep", "scan"} THEN 1 ELSE 0)

\* The owner drops the Cache; no call borrows it at that moment.
DropCache ==
    /\ scenario = "cache"
    /\ ~dropped
    /\ \A p \in Procs : pc[p] \in {"idle", "set_done", "get_done", "delete_done"}
    /\ dropped' = TRUE
    /\ UNCHANGED <<settled, written, sel, stats, recorded, limVars, scenario, now, cfg,
                   items, shard, readers, sweeper, metrics, pc, inv, cop, mop, uuids, calls>>

NextCacheDrop == NextCache \/ DropCache

\* the cache with its owner dropping it at some moment, the tasks scheduled
\* fairly
SpecCacheDrop == InitCache /\ [][NextCacheDrop]_vars /\ FairCache

(***************************************************************************)
(* monitoring.rs: Metrics::record_transaction, one step per atomic         *)
(* operation.  Fees are kept in hundredths; a Duration is a number of      *)
(* ticks, and a millisecond is TicksPerMilli ticks.                        *)
(***************************************************************************)
TicksPerMilli == 2

as_millis_Rounded(d) == (d + 1) \div TicksPerMilli

\* Duration::as_millis: the whole milliseconds of a duration
as_millis(d) == d \div TicksPerMilli

fetch_add_Store(x, n) == n

\* AtomicU64::fetch_add: the new value of the counter
fetch_add(x, n) == x + n

\* self.total_transactions.fetch_add(1)
RecTotal(p) ==
    /\ pc[p] = "rec_total"
    /\ metrics' = [metrics EXCEPT !.total_transactions = fetch_add(@, 1)]
    /\ pc' = [pc EXCEPT ![p] = "rec_outcome"]
    /\ UNCHANGED <<dropped, settled, written, sel, stats, recorded, limVars, scenario, now, cfg, items, shard, readers, sweeper,
                   inv, cop, mop, uuids, calls>>

\* successful_transactions.fetch_add(1) or failed_transactions.fetch_add(1)
RecOutcome(p) ==
    /\ pc[p] = "rec_outcome"
    /\ IF mop[p].success
       THEN /\ metrics' = [metrics EXCEPT !.successful_transactions = fetch_add(@, 1)]
            /\ pc' = [pc EXCEPT ![p] = "rec_fee"]
       ELSE /\ metrics' = [metrics EXCEPT !.failed_transactions = fetch_add(@, 1)]
            /\ pc' = [pc EXCEPT ![p] = "rec_latency"]
    /\ UNCHANGED <<dropped, settled, written, sel, stats, recorded, limVars, scenario, now, cfg, items, shard, readers, sweeper,
                   inv, cop, mop, uuids, calls>>

\* *total_fee += fee, under the mutex of total_fee_paid
RecFee(p) ==
    /\ pc[p] = "rec_fee"
    /\ metrics' = [metrics EXCEPT !.total_fee_paid = @ + mop[p].fee]
    /\ pc' = [pc EXCEPT ![p] = "rec_latency"]
    /\ UNCHANGED <<dropped, settled, written, sel, stats, recorded, limVars, scenario, now, cfg, items, shard, readers, sweeper,
                   inv, cop, mop, uuids, calls>>

\* self.total_latency_ms.fetch_add(latency_ms), and the call returns
RecLatency(p) ==
    /\ pc[p] = "rec_latency"
    /\ metrics' = [metrics EXCEPT !.total_latency_ms = fetch_add(@, as_millis(mop[p].latency))]
    /\ pc' = [pc EXCEPT ![p] = IF mop[p].caller = "execute" THEN "returned"
                               ELSE "record_done"]
    /\ mop' = [mop EXCEPT ![p] = NoMop]
    /\ UNCHANGED <<dropped, settled, written, sel, stats, recorded, limVars, scenario, now, cfg, items, shard, readers, sweeper,
                   inv, cop, uuids, calls>>

(***************************************************************************)
(* monitoring.rs: Metrics::get_stats, one step per load, and the callers   *)
(* of the metrics scenario, which call record_transaction and get_stats    *)
(* directly.                                                               *)
(***************************************************************************)
RECURSIVE Gcd(_, _)
Gcd(a, b) == IF b = 0 THEN a ELSE Gcd(b, a % b)

\* a / b in f64, for counters a and b > 0
Quotient(a, b) == [num |-> a \div Gcd(a, b), den |-> b \div Gcd(a, b)]

\* the arguments the callers of the metrics scenario pass
Fees == {0, 5}
Latencies == {1, 2, 3}

\* A task calls record_transaction(success, fee, latency) or get_stats();
\* its previous call, if any, has returned.
MetricsCall(p) ==
    /\ scenario = "metrics"
    /\ pc[p] \in {"idle", "record_done", "stats_done", "clear_done"}
    /\ calls < MaxRecords
    /\ calls' = calls + 1
    /\ \/ \E success \in BOOLEAN, fee \in Fees, latency \in Latencies :
            /\ mop' = [mop EXCEPT ![p] = [success |-> success, fee |-> fee,
                                          latency |-> latency, caller |-> "direct"]]
            /\ recorded' =
                 [n |-> recorded.n + 1,
                  successful |-> recorded.successful + (IF success THEN 1 ELSE 0),
                  failed |-> recorded.failed + (IF success THEN 0 ELSE 1),
                  fee |-> recorded.fee + (IF success THEN fee ELSE 0),
                  latency_ms |-> recorded.latency_ms + (latency \div TicksPerMilli)]
            /\ pc' = [pc EXCEPT ![p] = "rec_total"]
            /\ stats' = stats
       \/ /\ stats' = [stats EXCEPT ![p] = NoStats]
          /\ pc' = [pc EXCEPT ![p] = "stats_total"]
          /\ UNCHANGED <<mop, recorded>>
    /\ UNCHANGED <<dropped, settled, written, sel, limVars, scenario, now, cfg, items, shard, readers, sweeper, metrics,
                   inv, cop, uuids>>

\* let total = self.total_transactions.load(Relaxed)
StatsTotal(p) ==
    /\ pc[p] = "stats_total"
    /\ stats' = [stats EXCEPT ![p].total = metrics.total_transactions]
    /\ pc' = [pc EXCEPT ![p] = "stats_successful"]
    /\ UNCHANGED <<dropped, settled, written, sel, recorded, limVars, scenario, now, cfg, items, shard, readers, sweeper,
                   metrics, inv, cop, mop, uuids, calls>>

\* let successful = self.successful_transactions.load(Relaxed)
StatsSuccessful(p) ==
    /\ pc[p] = "stats_successful"
    /\ stats' = [stats EXCEPT ![p].successful = metrics.successful_transactions]
    /\ pc' = [pc EXCEPT ![p] = "stats_failed"]
    /\ UNCHANGED <<dropped, settled, written, sel, recorded, limVars, scenario, now, cfg, items, shard, readers, sweeper,
                   metrics, inv, cop, mop, uuids, calls>>

\* let failed = self.failed_transactions.load(Relaxed)
StatsFailed(p) ==
    /\ pc[p] = "stats_failed"
    /\ stats' = [stats EXCEPT ![p].failed = metrics.failed_transactions]
    /\ pc' = [pc EXCEPT ![p] = "stats_fee"]
    /\ UNCHANGED <<dropped, settled, written, sel, recorded, limVars, scenario, now, cfg, items, shard, readers, sweeper,
                   metrics, inv, cop, mop, uuids, calls>>

\* let total_fee = self.total_fee_paid.lock().map(|f| *f)
StatsFee(p) ==
    /\ pc[p] = "stats_fee"
    /\ stats' = [stats EXCEPT ![p].total_fee = metrics.total_fee_paid]
    /\ pc' = [pc EXCEPT ![p] = "stats_latency"]
    /\ UNCHANGED <<dropped, settled, written, sel, recorded, limVars, scenario, now, cfg, items, shard, readers, sweeper,
                   metrics, inv, cop, mop, uuids, calls>>

\* let total_latency = self.total_latency_ms.load(Relaxed); the map is
\* built, with the two quotients when total > 0, and returned
StatsLatency(p) ==
    /\ pc[p] = "stats_latency"
    /\ LET total_latency == metrics.total_latency_ms
           total == stats[p].total
       IN  stats' = [stats EXCEPT
                       ![p].total_latency = total_latency,
                       ![p].average_latency_ms =
                           IF total > 0 THEN Quotient(total_latency, total) ELSE Zero,
                       ![p].success_rate =
                           IF total > 0 THEN Quotient(stats[p].successful, total) ELSE Zero]
    /\ pc' = [pc EXCEPT ![p] = "stats_done"]
    /\ UNCHANGED <<dropped, settled, written, sel, recorded, limVars, scenario, now, cfg, items, shard, readers, sweeper,
                   metrics, inv, cop, mop, uuids, calls>>

NextMetrics ==
    \E p \in Procs :
      \/ MetricsCall(p)
      \/ RecTotal(p)
      \/ RecOutcome(p)
      \/ RecFee(p)
      \/ RecLatency(p)
      \/ StatsTotal(p)
      \/ StatsSuccessful(p)
      \/ StatsFailed(p)
      \/ StatsFee(p)
      \/ StatsLatency(p)

InitMetrics == Init /\ scenario = "metrics"
SpecMetrics == InitMetrics /\ [][NextMetrics]_vars

(***************************************************************************)
(* monitoring.rs: Metrics::reset, one step per store, called beside        *)
(* record_transaction and get_stats.                                       *)
(***************************************************************************)
\* A task calls reset(); its previous call, if any, has returned.
MetricsReset(p) ==
    /\ scenario = "metrics"
    /\ pc[p] \in {"idle", "record_done", "stats_done", "clear_done"}
    /\ calls < MaxRecords
    /\ calls' = calls + 1
    /\ pc' = [pc EXCEPT ![p] = "clear_total"]
    /\ UNCHANGED <<dropped, settled, written, sel, stats, recorded, limVars, scenario, now, cfg,
                   items, shard, readers, sweeper, metrics, inv, cop, mop, uuids>>

\* self.total_transactions.store(0)
ClearTotal(p) ==
    /\ pc[p] = "clear_total"
    /\ metrics' = [metrics EXCEPT !.total_transactions = 0]
    /\ pc' = [pc EXCEPT ![p] = "clear_successful"]
    /\ UNCHANGED <<dropped, settled, written, sel, stats, recorded, limVars, scenario, now, cfg,
                   items, shard, readers, sweeper, inv, cop, mop, uuids, calls>>

\* self.successful_transactions.store(0)
ClearSuccessful(p) ==
    /\ pc[p] = "clear_successful"
    /\ metrics' = [metrics EXCEPT !.successful_transactions = 0]
    /\ pc' = [pc EXCEPT ![p] = "clear_failed"]
    /\ UNCHANGED <<dropped, settled, written, sel, stats, recorded, limVars, scenario, now, cfg,
                   items, shard, readers, sweeper, inv, cop, mop, uuids, calls>>

\* self.failed_transactions.store(0)
ClearFailed(p) ==
    /\ pc[p] = "clear_failed"
    /\ metrics' = [metrics EXCEPT !.failed_transactions = 0]
    /\ pc' = [pc EXCEPT ![p] = "clear_fee"]
    /\ UNCHANGED <<dropped, settled, written, sel, stats, recorded, limVars, scenario, now, cfg,
                   items, shard, readers, sweeper, inv, cop, mop, uuids, calls>>

\* *total_fee = 0.0, under the mutex of total_fee_paid
ClearFee(p) ==
    /\ pc[p] = "clear_fee"
    /\ metrics' = [metrics EXCEPT !.total_fee_paid = 0]
    /\ pc' = [pc EXCEPT ![p] = "clear_latency"]
    /\ UNCHANGED <<dropped, settled, written, sel, stats, recorded, limVars, scenario, now, cfg,
                   items, shard, readers, sweeper, inv, cop, mop, uuids, calls>>

\* self.total_latency_ms.store(0), and the call returns
ClearLatency(p) ==
    /\ pc[p] = "clear_latency"
    /\ metrics' = [metrics EXCEPT !.total_latency_ms = 0]
    /\ pc' = [pc EXCEPT ![p] = "clear_done"]
    /\ UNCHANGED <<dropped, settled, written, sel, stats, recorded, limVars, scenario, now, cfg,
                   items, shard, readers, sweeper, inv, cop, mop, uuids, calls>>

NextMetricsReset ==
    \/ NextMetrics
    \/ \E p \in Procs :
         \/ MetricsReset(p)
         \/ ClearTotal(p)
         \/ ClearSuccessful(p)
         \/ ClearFailed(p)
         \/ ClearFee(p)
         \/ ClearLatency(p)

SpecMetricsReset == InitMetrics /\ [][NextMetricsReset]_vars

(***************************************************************************)
(* The collaborators of the pipeline.  The client is written against the   *)
(* traits ZkProofGenerator and AgentNegotiatorTrait, whose calls return a  *)
(* Result; the outcomes below are those a Result of that type can take     *)
(* (the mock implementations always take the first).                       *)
(***************************************************************************)
ProofOutcomes == {"ok", "err"}

UnparsedFeeQuotes == << RouteQuote("agent-003", "free", 30, <<"base">>, 85) >>

QuoteOutcomes(req) ==
    { [ok |-> TRUE, quotes |-> MockQuotes(req)],
      [ok |-> TRUE, quotes |-> UnparsedFeeQuotes],
      [ok |-> TRUE, quotes |-> << >>],
      [ok |-> FALSE, quotes |-> << >>] }

(***************************************************************************)
(* client.rs: EasyCashClient::execute_transaction.  inv[p].log lists the   *)
(* stages the invocation has entered, inv[p].recs the arguments of its     *)
(* record_transaction calls.                                               *)
(***************************************************************************)
NoRouteError_Network == Err("NetworkFailure")

\* The error each failing stage is mapped to by map_err.
ValidationError == Err("InvalidRequest")
ProofError == Err("ProofGeneration")
QuoteFetchError == Err("AgentUnavailable")
NoRouteError == Err("AgentUnavailable")

NeedsProof_Either(req) == cfg.enable_zk_proofs \/ req.is_shielded

\* if self.config.enable_zk_proofs && req.is_shielded
NeedsProof(req) == cfg.enable_zk_proofs /\ req.is_shielded

LookupFirst_Skipped == FALSE

\* if let Some(ref cache) = self.cache, before the lookup and before the write
LookupFirst == cfg.enable_caching
WritesCache == cfg.enable_caching

\* the wrapper with the record made on the success path only
Returning_OkOnly(p, i, res) ==
    IF cfg.enable_metrics /\ res.ok
    THEN LET args == [success |-> res.ok,
                      fee |-> FeeOr(res.value.fee_used, 0),
                      latency |-> now - i.start_time,
                      caller |-> "execute"]
         IN  /\ inv' = [inv EXCEPT ![p] = [i EXCEPT !.result = res,
                                                    !.start_time = 0,
                                                    !.quotes = <<>>, !.best = NoQuote,
                                                    !.resp = NoResponse,
                                                    !.log = Append(@, "record_transaction"),
                                                    !.recs = Append(@, args)]]
             /\ mop' = [mop EXCEPT ![p] = args]
             /\ pc' = [pc EXCEPT ![p] = "rec_total"]
    ELSE /\ inv' = [inv EXCEPT ![p] = [i EXCEPT !.result = res,
                                                !.start_time = 0,
                                                !.quotes = <<>>, !.best = NoQuote,
                                                !.resp = NoResponse]]
         /\ mop' = mop
         /\ pc' = [pc EXCEPT ![p] = "returned"]

\* execute_transaction_internal has returned res: the wrapper records the
\* metrics when they are enabled and returns res.
Returning(p, i, res) ==
    IF cfg.enable_metrics
    THEN LET args == [success |-> res.ok,
                      fee |-> IF res.ok THEN FeeOr(res.value.fee_used, 0) ELSE 0,
                      latency |-> now - i.start_time,
                      caller |-> "execute"]
         IN  /\ inv' = [inv EXCEPT ![p] = [i EXCEPT !.result = res,
                                                    !.start_time = 0,
                                                    !.quotes = <<>>, !.best = NoQuote,
                                                    !.resp = NoResponse,
                                                    !.log = Append(@, "record_transaction"),
                                                    !.recs = Append(@, args)]]
             /\ mop' = [mop EXCEPT ![p] = args]
             /\ pc' = [pc EXCEPT ![p] = "rec_total"]
    ELSE /\ inv' = [inv EXCEPT ![p] = [i EXCEPT !.result = res,
                                                !.start_time = 0,
                                                !.quotes = <<>>, !.best = NoQuote,
                                                !.resp = NoResponse]]
         /\ mop' = mop
         /\ pc' = [pc EXCEPT ![p] = "returned"]

\* The tasks that call execute_transaction: in the pipeline scenario one
\* task submits its requests one after the other; in the concurrent
\* scenario two tasks share the client.
Callers == IF scenario = "pipeline" THEN {"t1"} ELSE Procs
Submitted(p) == IF scenario = "pipeline" THEN Requests ELSE SameKeyRequests[p]
MaxCalls == IF scenario = "pipeline" THEN MaxInvocations ELSE MaxConcurrent

\* A caller invokes execute_transaction(req): the clock is read and the
\* request validated; a valid request goes on to the cache lookup, or to
\* the proof gate when the client has no cache.
ExecStart(p) ==
    /\ scenario \in {"pipeline", "concurrent"}
    /\ p \in Callers
    /\ pc[p] \in {"idle", "returned", "aborted"}
    /\ calls < MaxCalls
    /\ calls' = calls + 1
    /\ \E req \in Submitted(p) :
         LET i == [NoInv EXCEPT !.req = req, !.start_time = now,
                                !.log = <<"validate">>]
         IN  IF validate_transaction_request(req) # "ok"
             THEN /\ Returning(p, i, ValidationError)
                  /\ cop' = cop
             ELSE IF LookupFirst
             THEN /\ inv' = [inv EXCEPT ![p] = [i EXCEPT !.log = Append(@, "cache_get")]]
                  /\ cop' = [cop EXCEPT ![p] = [NoCop EXCEPT !.key = cache_key(req),
                                                             !.caller = "execute"]]
                  /\ pc' = [pc EXCEPT ![p] = "get"]
                  /\ mop' = mop
             ELSE /\ inv' = [inv EXCEPT ![p] = i]
                  /\ pc' = [pc EXCEPT ![p] = "proof"]
                  /\ UNCHANGED <<stats, recorded, cop, mop>>
    /\ UNCHANGED <<dropped, settled, written, sel, stats, recorded, limVars, scenario, now, cfg, items, shard, readers, sweeper, metrics, uuids>>

\* the hit ignored: the invocation goes on to fetch quotes
CacheHit_Ignored(p) ==
    /\ pc[p] = "get_done"
    /\ cop[p].caller = "execute"
    /\ cop[p].ret.some
    /\ inv' = [inv EXCEPT ![p].log = Append(@, "request_quotes")]
    /\ pc' = [pc EXCEPT ![p] = "quotes"]
    /\ cop' = [cop EXCEPT ![p] = NoCop]
    /\ UNCHANGED <<dropped, settled, written, sel, stats, recorded, limVars, scenario, now, cfg, items, shard, readers, sweeper, metrics,
                   mop, uuids, calls>>

\* cache.get returned Some(cached): return Ok(cached)
CacheHit(p) ==
    /\ pc[p] = "get_done"
    /\ cop[p].caller = "execute"
    /\ cop[p].ret.some
    /\ Returning(p, inv[p], Ok(cop[p].ret.value))
    /\ cop' = [cop EXCEPT ![p] = NoCop]
    /\ UNCHANGED <<dropped, settled, written, sel, stats, recorded, limVars, scenario, now, cfg, items, shard, readers, sweeper, metrics,
                   uuids, calls>>

\* The cache missed (or there is none): the proof, if the configuration
\* asks for proofs and the request is shielded; then request_quotes is
\* called and the task waits for it.
ProofGate(p) ==
    /\ \/ pc[p] = "proof"
       \/ pc[p] = "get_done" /\ cop[p].caller = "execute" /\ ~cop[p].ret.some
    /\ cop' = [cop EXCEPT ![p] = NoCop]
    /\ IF NeedsProof(inv[p].req)
       THEN \E outcome \in ProofOutcomes :
              LET i == [inv[p] EXCEPT !.log = Append(@, "generate_proof")]
              IN  IF outcome = "err"
                  THEN Returning(p, i, ProofError)
                  ELSE /\ inv' = [inv EXCEPT ![p] = [i EXCEPT !.log = Append(@, "request_quotes")]]
                       /\ pc' = [pc EXCEPT ![p] = "quotes"]
                       /\ mop' = mop
       ELSE /\ inv' = [inv EXCEPT ![p].log = Append(@, "request_quotes")]
            /\ pc' = [pc EXCEPT ![p] = "quotes"]
            /\ mop' = mop
    /\ UNCHANGED <<dropped, settled, written, sel, stats, recorded, limVars, scenario, now, cfg, items, shard, readers, sweeper, metrics,
                   uuids, calls>>

RoutePreference_Cost == "cost"

\* the preference the client passes to select_best_route
RoutePreference == "balanced"

\* request_quotes completes; on Ok the best route is selected under
\* "balanced" and the task waits for the settlement.
Negotiate(p) ==
    /\ pc[p] = "quotes"
    /\ \E outcome \in QuoteOutcomes(inv[p].req) :
         IF ~outcome.ok
         THEN Returning(p, inv[p], QuoteFetchError)
         ELSE LET i == [inv[p] EXCEPT !.quotes = outcome.quotes,
                                      !.log = Append(@, "select_best_route")]
                  best == select_best_route(outcome.quotes, RoutePreference)
              IN  IF ~best.ok
                  THEN Returning(p, i, NoRouteError)
                  ELSE /\ inv' = [inv EXCEPT ![p] = [i EXCEPT !.best = best.value,
                                                              !.log = Append(@, "settle")]]
                       /\ pc' = [pc EXCEPT ![p] = "settle"]
                       /\ mop' = mop
    /\ UNCHANGED <<dropped, settled, written, sel, stats, recorded, limVars, scenario, now, cfg, items, shard, readers, sweeper, metrics,
                   cop, uuids, calls>>

\* The settlement completes: the response is built with a fresh tx_hash and
\* the fee of the chosen route; with a cache, cache.set is called.
Settle(p) ==
    /\ pc[p] = "settle"
    /\ uuids' = uuids + 1
    /\ settled' = settled + FeeOr(inv[p].best.estimated_fee, 0)
    /\ LET resp == TransactionResponse(uuids + 1, "confirmed", 1948201,
                                       inv[p].best.estimated_fee)
           i == [inv[p] EXCEPT !.resp = resp]
       IN  IF WritesCache
           THEN /\ inv' = [inv EXCEPT ![p] = [i EXCEPT !.log = Append(@, "cache_set")]]
                /\ cop' = [cop EXCEPT ![p] = [NoCop EXCEPT !.key = cache_key(inv[p].req),
                                                           !.value = resp,
                                                           !.caller = "execute"]]
                /\ pc' = [pc EXCEPT ![p] = "set"]
                /\ mop' = mop
           ELSE /\ Returning(p, i, Ok(resp))
                /\ cop' = cop
    /\ UNCHANGED <<dropped, written, sel, stats, recorded, limVars, scenario, now, cfg,
                   items, shard, readers, sweeper, metrics, calls>>

\* cache.set returned: return Ok(resp)
Cached(p) ==
    /\ pc[p] = "set_done"
    /\ cop[p].caller = "execute"
    /\ Returning(p, inv[p], Ok(inv[p].resp))
    /\ cop' = [cop EXCEPT ![p] = NoCop]
    /\ UNCHANGED <<dropped, settled, written, sel, stats, recorded, limVars, scenario, now, cfg, items, shard, readers, sweeper, metrics,
                   uuids, calls>>

\* The remove of Cache::get is not listed: the pipeline never calls delete,
\* and in get the write lock is never granted (see Remove).
NextPipeline ==
    \/ Tick
    \/ SweepTick
    \/ SweepShard
    \/ \E p \in Procs :
         \/ ExecStart(p)
         \/ GetLookup(p)
         \/ GetCheck(p)
         \/ CacheHit(p)
         \/ ProofGate(p)
         \/ Negotiate(p)
         \/ Settle(p)
         \/ SetArgs(p)
         \/ SetInsert(p)
         \/ Cached(p)
         \/ RecTotal(p)
         \/ RecOutcome(p)
         \/ RecFee(p)
         \/ RecLatency(p)

InitPipeline == Init /\ scenario = "pipeline"
SpecPipeline == InitPipeline /\ [][NextPipeline]_vars

\* Two tasks call execute_transaction on one client whose cache is enabled.
NextConcurrent ==
    \/ Tick
    \/ SweepTick
    \/ SweepShard
    \/ \E p \in Procs :
         \/ ExecStart(p)
         \/ GetLookup(p)
         \/ GetCheck(p)
         \/ CacheHit(p)
         \/ ProofGate(p)
         \/ Negotiate(p)
         \/ Settle(p)
         \/ SetArgs(p)
         \/ SetInsert(p)
         \/ Cached(p)

InitConcurrent == Init /\ scenario = "concurrent"
SpecConcurrent == InitConcurrent /\ [][NextConcurrent]_vars


(***************************************************************************)
(* rate_limiter.rs.  lop[p].elapsed and lop[p].prior are history: the time *)
(* since window_start that the call saw, and the number of calls admitted  *)
(* in its window before it; lop[p].count0 and lop[p].start0 are the count  *)
(* and window_start the call found when it took the lock, lop[p].rolled    *)
(* whether it moved the window; win counts the calls of the current window *)
(* that have passed the rollover test, and those admitted; win.admits are  *)
(* the times at which check() has returned Ok(()) since construction, and  *)
(* win.resets the number of reset() calls that have run.                   *)
(***************************************************************************)
WindowElapsed_Strict(t, start, window) == t - start > window

WindowElapsed_Always(t, start, window) == t - start >= 0

\* the rollover test: now.duration_since(*window_start) >= self.config.window
WindowElapsed(t, start, window) == t - start >= window

OverLimit_Strict(current, max) == current > max

\* the admission test on the value fetch_add returned: current >= max_requests
OverLimit(current, max) == current >= max

RateLimitExceeded == "rate limit exceeded"

LimiterCall_IgnoresEnabled(p) ==
    /\ scenario = "limiter"
    /\ pc[p] \in {"idle", "check_done", "reset_done", "aborted"}
    /\ calls < MaxChecks
    /\ calls' = calls + 1
    /\ \/ /\ lop' = [lop EXCEPT ![p] = NoLop]
          /\ pc' = [pc EXCEPT ![p] = "check_lock"]
       \/ /\ lop' = [lop EXCEPT ![p] = NoLop]
          /\ pc' = [pc EXCEPT ![p] = "reset_lock"]
    /\ UNCHANGED <<dropped, settled, written, sel, stats, recorded, scenario, now, cfg, items, shard, readers, sweeper, metrics,
                   inv, cop, mop, uuids, lcfg, lim, win>>

\* A task calls check() or reset(); its previous call, if any, has returned.
\* A disabled limiter returns Ok(()) at once.
LimiterCall(p) ==
    /\ scenario = "limiter"
    /\ pc[p] \in {"idle", "check_done", "reset_done", "aborted"}
    /\ calls < MaxChecks
    /\ calls' = calls + 1
    /\ \/ /\ lop' = [lop EXCEPT ![p] = [NoLop EXCEPT !.result =
                                          IF lcfg.enabled THEN "" ELSE "ok"]]
          /\ pc' = [pc EXCEPT ![p] = IF lcfg.enabled THEN "check_lock" ELSE "check_done"]
       \/ /\ lop' = [lop EXCEPT ![p] = NoLop]
          /\ pc' = [pc EXCEPT ![p] = "reset_lock"]
    /\ UNCHANGED <<dropped, settled, written, sel, stats, recorded, scenario, now, cfg, items, shard, readers, sweeper, metrics,
                   inv, cop, mop, uuids, lcfg, lim, win>>

\* self.window_start.lock().await, in check() and in reset()
MutexFree(p) == lim.holder = NoTask

Lock(p) ==
    /\ pc[p] \in {"check_lock", "reset_lock"}
    /\ MutexFree(p)
    /\ lim' = [lim EXCEPT !.holder = p]
    /\ lop' = [lop EXCEPT ![p].count0 = lim.request_count,
                          ![p].start0 = lim.window_start]
    /\ pc' = [pc EXCEPT ![p] = IF pc[p] = "check_lock" THEN "check_window"
                               ELSE "reset_window"]
    /\ UNCHANGED <<dropped, settled, written, sel, stats, recorded, scenario, now, cfg, items, shard, readers, sweeper, metrics,
                   inv, cop, mop, uuids, calls, lcfg, win>>

\* check(): the clock is read and compared with window_start; an elapsed
\* window moves window_start to now
CheckWindow(p) ==
    /\ pc[p] = "check_window"
    /\ IF WindowElapsed(now, lim.window_start, lcfg.window)
       THEN /\ lim' = [lim EXCEPT !.window_start = now]
            /\ pc' = [pc EXCEPT ![p] = "check_store"]
            /\ win' = [win EXCEPT !.calls = 1, !.admitted = 0]
            /\ lop' = [lop EXCEPT ![p].elapsed = now - lim.window_start,
                                  ![p].prior = 0,
                                  ![p].rolled = TRUE]
       ELSE /\ lim' = lim
            /\ pc' = [pc EXCEPT ![p] = "check_add"]
            /\ win' = [win EXCEPT !.calls = @ + 1]
            /\ lop' = [lop EXCEPT ![p].elapsed = now - lim.window_start,
                                  ![p].prior = win.admitted]
    /\ UNCHANGED <<dropped, settled, written, sel, stats, recorded, scenario, now, cfg, items, shard, readers, sweeper, metrics,
                   inv, cop, mop, uuids, calls, lcfg>>

\* check(): self.request_count.store(0) of the rollover
CheckStore(p) ==
    /\ pc[p] = "check_store"
    /\ lim' = [lim EXCEPT !.request_count = 0]
    /\ pc' = [pc EXCEPT ![p] = "check_add"]
    /\ UNCHANGED <<dropped, settled, written, sel, stats, recorded, scenario, now, cfg, items, shard, readers, sweeper, metrics,
                   inv, cop, mop, uuids, calls, lcfg, lop, win>>

CheckAdd_Uncounted(p) ==
    /\ pc[p] = "check_add"
    /\ IF OverLimit(lim.request_count, lcfg.max_requests)
       THEN /\ lim' = [lim EXCEPT !.request_count = @ + 1]
            /\ lop' = [lop EXCEPT ![p].current = lim.request_count]
            /\ pc' = [pc EXCEPT ![p] = "check_sub"]
            /\ win' = win
       ELSE /\ lim' = [lim EXCEPT !.holder = NoTask]
            /\ lop' = [lop EXCEPT ![p].current = lim.request_count,
                                  ![p].result = "ok"]
            /\ pc' = [pc EXCEPT ![p] = "check_done"]
            /\ win' = [win EXCEPT !.admitted = @ + 1, !.admits = Append(@, now)]
    /\ UNCHANGED <<dropped, settled, written, sel, stats, recorded, scenario, now, cfg, items, shard, readers, sweeper, metrics,
                   inv, cop, mop, uuids, calls, lcfg>>

\* check(): fetch_add(1); under the limit the call returns Ok(()) and the
\* guard is dropped
CheckAdd(p) ==
    /\ pc[p] = "check_add"
    /\ IF OverLimit(lim.request_count, lcfg.max_requests)
       THEN /\ lim' = [lim EXCEPT !.request_count = @ + 1]
            /\ lop' = [lop EXCEPT ![p].current = lim.request_count]
            /\ pc' = [pc EXCEPT ![p] = "check_sub"]
            /\ win' = win
       ELSE /\ lim' = [lim EXCEPT !.request_count = @ + 1, !.holder = NoTask]
            /\ lop' = [lop EXCEPT ![p].current = lim.request_count,
                                  ![p].result = "ok"]
            /\ pc' = [pc EXCEPT ![p] = "check_done"]
            /\ win' = [win EXCEPT !.admitted = @ + 1, !.admits = Append(@, now)]
    /\ UNCHANGED <<dropped, settled, written, sel, stats, recorded, scenario, now, cfg, items, shard, readers, sweeper, metrics,
                   inv, cop, mop, uuids, calls, lcfg>>

CheckSub_NoUndo(p) ==
    /\ pc[p] = "check_sub"
    /\ lim' = [lim EXCEPT !.holder = NoTask]
    /\ lop' = [lop EXCEPT ![p].result = RateLimitExceeded]
    /\ pc' = [pc EXCEPT ![p] = "check_done"]
    /\ UNCHANGED <<dropped, settled, written, sel, stats, recorded, scenario, now, cfg, items, shard, readers, sweeper, metrics,
                   inv, cop, mop, uuids, calls, lcfg, win>>

\* check(): over the limit, fetch_sub(1) and Err("rate limit exceeded: ..")
CheckSub(p) ==
    /\ pc[p] = "check_sub"
    /\ lim' = [lim EXCEPT !.request_count = @ - 1, !.holder = NoTask]
    /\ lop' = [lop EXCEPT ![p].result = RateLimitExceeded]
    /\ pc' = [pc EXCEPT ![p] = "check_done"]
    /\ UNCHANGED <<dropped, settled, written, sel, stats, recorded, scenario, now, cfg, items, shard, readers, sweeper, metrics,
                   inv, cop, mop, uuids, calls, lcfg, win>>

\* reset(): *window_start = Instant::now()
ResetWindow(p) ==
    /\ pc[p] = "reset_window"
    /\ lim' = [lim EXCEPT !.window_start = now]
    /\ win' = [win EXCEPT !.calls = 0, !.admitted = 0, !.resets = @ + 1]
    /\ pc' = [pc EXCEPT ![p] = "reset_store"]
    /\ UNCHANGED <<dropped, settled, written, sel, stats, recorded, scenario, now, cfg, items, shard, readers, sweeper, metrics,
                   inv, cop, mop, uuids, calls, lcfg, lop>>

ResetStore_KeepCount(p) ==
    /\ pc[p] = "reset_store"
    /\ lim' = [lim EXCEPT !.holder = NoTask]
    /\ pc' = [pc EXCEPT ![p] = "reset_done"]
    /\ UNCHANGED <<dropped, settled, written, sel, stats, recorded, scenario, now, cfg, items, shard, readers, sweeper, metrics,
                   inv, cop, mop, uuids, calls, lcfg, lop, win>>

\* reset(): self.request_count.store(0), and the guard is dropped
ResetStore(p) ==
    /\ pc[p] = "reset_store"
    /\ lim' = [lim EXCEPT !.request_count = 0, !.holder = NoTask]
    /\ pc' = [pc EXCEPT ![p] = "reset_done"]
    /\ UNCHANGED <<dropped, settled, written, sel, stats, recorded, scenario, now, cfg, items, shard, readers, sweeper, metrics,
                   inv, cop, mop, uuids, calls, lcfg, lop, win>>

\* current_count(): self.request_count.load(Relaxed), with no lock taken
current_count == lim.request_count

\* remaining(): max_requests - request_count, or 0 when the count has
\* reached max_requests; window_start is not looked at
remaining ==
    LET current == lim.request_count
        max == lcfg.max_requests
    IN  IF current >= max THEN 0 ELSE max - current

\* What a check() run now with no other call beside it returns Ok for: the
\* rollover test, the store of 0 when it passes, and the admission test on
\* the value fetch_add returns.
WouldAdmit ==
    LET current == IF WindowElapsed(now, lim.window_start, lcfg.window)
                   THEN 0 ELSE lim.request_count
    IN  ~OverLimit(current, lcfg.max_requests)

NextLimiter ==
    \/ Tick
    \/ \E p \in Procs :
         \/ LimiterCall(p)
         \/ Lock(p)
         \/ CheckWindow(p)
         \/ CheckStore(p)
         \/ CheckAdd(p)
         \/ CheckSub(p)
         \/ ResetWindow(p)
         \/ ResetStore(p)

InitLimiter == Init /\ scenario = "limiter"
SpecLimiter == InitLimiter /\ [][NextLimiter]_vars

(***************************************************************************)
(* agent/mod.rs: select_best_route called on a list of quotes.  The list   *)
(* is borrowed, so the call leaves it as it is.                            *)
(***************************************************************************)
SelectBestRoute ==
    /\ scenario = "select"
    /\ sel.out = NoSelection
    /\ sel' = [sel EXCEPT !.out = select_best_route(sel.quotes, sel.preference)]
    /\ UNCHANGED <<dropped, settled, written, stats, recorded, limVars, scenario, now, cfg, items, shard, readers,
                   sweeper, metrics, pc, inv, cop, mop, uuids, calls>>

NextSelect == SelectBestRoute

InitSelect == Init /\ scenario = "select"
SpecSelect == InitSelect /\ [][NextSelect]_vars

(***************************************************************************)
(* Cancellation.  A caller that gives up (a timeout around the call, a     *)
(* shutdown) drops the future of its call; a future can be dropped only    *)
(* where it is suspended at an .await: the lock() of check() and reset(),  *)
(* the request_quotes call and the sleep that stands for the settlement.   *)
(* Dropping it drops the guards it holds.                                  *)
(***************************************************************************)
Suspended_MidCheck(p) == pc[p] \in {"check_lock", "reset_lock", "quotes", "settle", "check_sub"}

Suspended(p) == pc[p] \in {"check_lock", "reset_lock", "quotes", "settle"}

Abort(p) ==
    /\ Suspended(p)
    /\ pc' = [pc EXCEPT ![p] = "aborted"]
    /\ lim' = IF lim.holder = p THEN [lim EXCEPT !.holder = NoTask] ELSE lim
    /\ readers' = [s \in Shards |-> readers[s] \ {p}]
    /\ UNCHANGED <<dropped, settled, written, sel, stats, recorded, scenario, now, cfg,
                   items, shard, sweeper, metrics, inv, cop, mop, uuids, calls,
                   lcfg, lop, win>>

NextAbort ==
    \/ NextConcurrent
    \/ NextLimiter
    \/ \E p \in Procs : Abort(p)

InitAbort == Init /\ scenario \in {"concurrent", "limiter"}
SpecAbort == InitAbort /\ [][NextAbort]_vars

Next == NextPipeline \/ NextCache \/ NextLimiter \/ NextMetrics \/ NextSelect
        \/ NextConcurrent \/ NextAbort \/ NextCacheDrop \/ NextMetricsReset
Spec == Init /\ [][Next]_vars


(***************************************************************************)
(* The claims.                                                             *)
(***************************************************************************)
InLog(p, e) == \E n \in 1..Len(inv[p].log) : inv[p].log[n] = e
Pos(p, e) == CHOOSE n \in 1..Len(inv[p].log) : inv[p].log[n] = e

\* the last stage an invocation entered, the metrics record left aside
LastStage(p) ==
    LET l == inv[p].log
    IN  IF l[Len(l)] = "record_transaction" THEN l[Len(l) - 1] ELSE l[Len(l)]

\* requests that must not pass validation: an empty amount, a recipient
\* that is no 40-digit hexadecimal address
KnownInvalid(req) == req.amount = "" \/ req.recipient = BadAddress

Min(a, b) == IF a < b THEN a ELSE b

\* C1, as stated: an invalid request ends Failed(InvalidRequest) having
\* entered no stage but validation, and makes exactly one metrics record,
\* with success = false.
C1_Original ==
    \A p \in Procs :
      pc[p] = "returned" /\ KnownInvalid(inv[p].req) =>
        /\ inv[p].result = [ok |-> FALSE, code |-> "InvalidRequest", value |-> NoResponse]
        /\ \A n \in 1..Len(inv[p].log) :
             inv[p].log[n] \in {"validate", "record_transaction"}
        /\ Len(inv[p].recs) = 1
        /\ ~inv[p].recs[1].success

\* C1, amended: an invalid request ends Failed(InvalidRequest) having entered
\* no stage but validation (no cache lookup, proof, quote fetch, route
\* selection, settlement or cache write); with enable_metrics set it makes
\* exactly one metrics record, with success = false, and without it none.
C1_InvalidStopsAtValidation ==
    \A p \in Procs :
      pc[p] = "returned" /\ KnownInvalid(inv[p].req) =>
        /\ inv[p].result = [ok |-> FALSE, code |-> "InvalidRequest", value |-> NoResponse]
        /\ inv[p].log = IF cfg.enable_metrics
                        THEN <<"validate", "record_transaction">>
                        ELSE <<"validate">>
        /\ IF cfg.enable_metrics
           THEN /\ Len(inv[p].recs) = 1
                /\ ~inv[p].recs[1].success
                /\ metrics.failed_transactions >= 1
           ELSE inv[p].recs = << >> /\ metrics = Metrics_new

C1_Witness ==
    \E p \in Procs :
      /\ pc[p] = "returned"
      /\ inv[p].req.amount = ""
      /\ cfg.enable_metrics
      /\ Len(inv[p].recs) = 1
      /\ metrics.failed_transactions = 1

\* C2: when the lookup of a valid request finds an unexpired entry under
\* its key, get returns that entry's value and leaves the map as it is, and
\* the invocation returns Ok of exactly that value with no further stage:
\* no proof, no quote fetch, no settlement (no tx_hash drawn), no cache write.
C2_HitShortCircuits ==
    [][\A p \in Procs :
         /\ ( /\ pc[p] = "get_check"
              /\ cop[p].caller = "execute"
              /\ pc'[p] # "get_check"
              /\ now < items[cop[p].key].expiration )
            => /\ cop[p].key = cache_key(inv[p].req)
               /\ pc'[p] = "get_done"
               /\ cop'[p].ret = [some |-> TRUE, value |-> items[cop[p].key].value]
               /\ items' = items
         /\ ( /\ pc[p] = "get_done"
              /\ cop[p].caller = "execute"
              /\ cop[p].ret.some
              /\ pc'[p] # "get_done" )
            => /\ inv'[p].result = [ok |-> TRUE, code |-> "", value |-> cop[p].ret.value]
               /\ pc'[p] \in {"rec_total", "returned"}
               /\ inv'[p].log \in {inv[p].log, Append(inv[p].log, "record_transaction")}
               /\ inv[p].log = <<"validate", "cache_get">>
               /\ items' = items
               /\ uuids' = uuids
      ]_vars

C2_Witness ==
    \E p \in Procs :
      /\ pc[p] = "returned"
      /\ inv[p].result.ok
      /\ inv[p].result.value.tx_hash = 1
      /\ calls = 2
      /\ ~InLog(p, "request_quotes")
      /\ InLog(p, "cache_get")

\* C3, as stated: every invocation that has returned made exactly one
\* metrics record, whose success flag says whether a response was returned
\* and whose fee is 0 on failure; total counts the invocations.
C3_Original ==
    \A p \in Procs :
      pc[p] = "returned" =>
        /\ Len(inv[p].recs) = 1
        /\ inv[p].recs[1].success = inv[p].result.ok
        /\ (~inv[p].result.ok => inv[p].recs[1].fee = 0)
        /\ metrics.total_transactions = calls

\* C3, amended: with enable_metrics set, every invocation that has returned
\* made exactly one metrics record, on the success path and on every
\* failure path; its success flag says whether a response was returned,
\* its fee is 0 on failure, and total has grown by one per invocation.
\* Without enable_metrics no record is made.
C3_OneRecordPerInvocation ==
    \A p \in Procs :
      pc[p] = "returned" =>
        IF cfg.enable_metrics
        THEN /\ Len(inv[p].recs) = 1
             /\ inv[p].recs[1].success = inv[p].result.ok
             /\ (~inv[p].result.ok => inv[p].recs[1].fee = 0)
             /\ metrics.total_transactions = calls
             /\ metrics.successful_transactions + metrics.failed_transactions = calls
        ELSE inv[p].recs = << >> /\ metrics = Metrics_new

C3_Witness ==
    \E p \in Procs :
      /\ pc[p] = "returned"
      /\ cfg.enable_metrics
      /\ inv[p].result.ok
      /\ metrics.total_transactions = 2
      /\ metrics.failed_transactions = 1

\* the stages a valid request has entered, in order, when its cache write
\* is made
StagesBeforeWrite(req) ==
    <<"validate", "cache_get">>
    \o (IF cfg.enable_zk_proofs /\ req.is_shielded THEN <<"generate_proof">> ELSE << >>)
    \o <<"request_quotes", "select_best_route", "settle", "cache_set">>

\* C4: the map changes only by a sweep, which only removes, or by the write
\* of an invocation that has passed validation, the lookup, the proof gate
\* when it applies, the quote fetch, the selection and the settlement, in
\* this order; an invocation that ends Failed has made no cache write.
C4_WriteAfterAllStages ==
    /\ [](\A p \in Procs :
            pc[p] \in {"rec_total", "rec_outcome", "rec_fee", "rec_latency", "returned"}
            /\ ~inv[p].result.ok => ~InLog(p, "cache_set"))
    /\ [][items' # items =>
            \/ /\ sweeper.pc = "scan"
               /\ sweeper' # sweeper
               /\ DOMAIN items' \subseteq DOMAIN items
               /\ \A k \in DOMAIN items' : items'[k] = items[k]
            \/ \E p \in Procs :
                 /\ pc[p] = "set_insert"
                 /\ pc'[p] = "set_done"
                 /\ ~KnownInvalid(inv[p].req)
                 /\ inv[p].log = StagesBeforeWrite(inv[p].req)
                 /\ DOMAIN items' = DOMAIN items \cup {cache_key(inv[p].req)}
                 /\ items'[cache_key(inv[p].req)].value = inv[p].resp
                 /\ \A k \in DOMAIN items \ {cache_key(inv[p].req)} : items'[k] = items[k]
        ]_vars

C4_Witness ==
    \E p \in Procs :
      /\ pc[p] = "set_done"
      /\ InLog(p, "generate_proof")
      /\ cache_key(inv[p].req) \in DOMAIN items
      /\ items[cache_key(inv[p].req)].value = inv[p].resp

\* C5: an invocation that ends Failed carries the one error kind of the
\* stage it failed in: InvalidRequest for validation, ProofGeneration for
\* the proof gate, AgentUnavailable for the quote fetch and for the route
\* selection of an empty quote set; it has entered no later stage, so it
\* has neither settled nor written the cache.
C5_OneKindPerStage ==
    \A p \in Procs :
      pc[p] = "returned" /\ ~inv[p].result.ok =>
        /\ inv[p].result.code =
             CASE LastStage(p) = "validate" -> "InvalidRequest"
               [] LastStage(p) = "generate_proof" -> "ProofGeneration"
               [] LastStage(p) = "request_quotes" -> "AgentUnavailable"
               [] LastStage(p) = "select_best_route" -> "AgentUnavailable"
               [] OTHER -> "<no stage fails here>"
        /\ inv[p].result.value = NoResponse
        /\ (LastStage(p) = "validate" <=> KnownInvalid(inv[p].req))
        /\ ~InLog(p, "settle")
        /\ ~InLog(p, "cache_set")
        /\ (LastStage(p) \in {"validate", "generate_proof"} => ~InLog(p, "request_quotes"))

C5_Witness ==
    \E p \in Procs :
      /\ pc[p] = "returned"
      /\ inv[p].result.code = "AgentUnavailable"
      /\ LastStage(p) = "select_best_route"

\* C6: an invocation enters the proof gate exactly when proofs are
\* configured and the request is shielded, and only after a cache miss;
\* the gate comes before the quote fetch; a failed proof ends the
\* invocation Failed(ProofGeneration) with no quote fetch and no settlement.
C6_ProofGate ==
    \A p \in Procs :
      /\ InLog(p, "generate_proof") =>
           /\ cfg.enable_zk_proofs
           /\ inv[p].req.is_shielded
           /\ (cfg.enable_caching => inv[p].log[2] = "cache_get")
      /\ InLog(p, "request_quotes") =>
           /\ InLog(p, "generate_proof") <=> (cfg.enable_zk_proofs /\ inv[p].req.is_shielded)
           /\ InLog(p, "generate_proof") => Pos(p, "generate_proof") < Pos(p, "request_quotes")
      /\ pc[p] = "returned" /\ inv[p].log # << >> /\ LastStage(p) = "generate_proof" =>
           /\ inv[p].result = [ok |-> FALSE, code |-> "ProofGeneration", value |-> NoResponse]
           /\ ~InLog(p, "request_quotes")
           /\ ~InLog(p, "settle")

C6_Witness ==
    \E p \in Procs :
      /\ pc[p] = "returned"
      /\ inv[p].result.code = "ProofGeneration"
      /\ inv[p].log[2] = "cache_get"

\* C7: every proof generation, quote fetch and settlement of an invocation
\* comes after a check() of the rate limiter made by that invocation.
C7_RateGateFirst ==
    \A p \in Procs :
      \A n \in 1..Len(inv[p].log) :
        inv[p].log[n] \in {"generate_proof", "request_quotes", "settle"} =>
          \E m \in 1..(n - 1) : inv[p].log[m] = "rate_check"

\* C8: in every window of an enabled limiter, whatever the interleaving of
\* the check() calls, the calls admitted are min(max_requests, calls made
\* in the window), and request_count is their number.
C8_AdmitsUpToCeiling ==
    lcfg.enabled =>
      /\ (\A p \in Procs : pc[p] \notin {"check_store", "check_add"}) =>
           win.admitted = Min(lcfg.max_requests, win.calls)
      /\ (\A p \in Procs : pc[p] \notin {"check_store", "check_add", "check_sub",
                                        "reset_store"}) =>
           lim.request_count = win.admitted

C8_Witness ==
    /\ lcfg.enabled
    /\ lcfg.max_requests >= 1
    /\ win.calls > lcfg.max_requests
    /\ win.admitted = lcfg.max_requests
    /\ \A p \in Procs : pc[p] = "check_done"
    /\ \E p \in Procs : lop[p].result = RateLimitExceeded

\* C9: on an enabled limiter a check() is admitted when fewer than
\* max_requests calls were admitted before it in its window, and fails with
\* "rate limit exceeded" otherwise; with max_requests >= 1, a check() made
\* once a window length has elapsed since window_start is admitted.
C9_WindowBoundary ==
    \A p \in Procs :
      pc[p] = "check_done" /\ lcfg.enabled =>
        /\ lop[p].prior < lcfg.max_requests => lop[p].result = "ok"
        /\ lop[p].prior >= lcfg.max_requests => lop[p].result = "rate limit exceeded"
        /\ lop[p].elapsed >= lcfg.window /\ lcfg.max_requests >= 1 => lop[p].result = "ok"

C9_Witness ==
    \E p \in Procs :
      /\ pc[p] = "check_done"
      /\ lcfg.enabled
      /\ lcfg.max_requests >= 1
      /\ lcfg.window >= 1
      /\ lop[p].result = "ok"
      /\ lop[p].elapsed >= lcfg.window
      /\ calls >= lcfg.max_requests + 2
      /\ \E q \in Procs \ {p} : lop[q].result = RateLimitExceeded

\* C10, the half that holds: a get returns a value only from an entry that
\* is present and whose expiry is still ahead when get reads the clock, and
\* the value is that entry's.
C10_NoExpiredValue ==
    [][\A p \in Procs :
         ( /\ pc[p] \in {"get", "get_check", "get_remove"}
           /\ pc'[p] = "get_done"
           /\ cop'[p].ret.some )
         => /\ cop[p].key \in DOMAIN items
            /\ now < items[cop[p].key].expiration
            /\ cop'[p].ret.value = items[cop[p].key].value
      ]_vars

\* C10: a get performed at or past the expiry of the entry under its key
\* returns not-found: it has returned no value, and once no other task
\* holds a guard on the key's shard its removal of the entry can go on, so
\* that the call returns.
C10_ExpiredGetReturnsNotFound ==
    \A p \in Procs :
      pc[p] = "get_remove" =>
        /\ ~cop[p].ret.some
        /\ readers[shard[cop[p].key]] \ {p} = {} => ENABLED Remove(p)

C10_Witness ==
    \E p \in Procs :
      /\ pc[p] = "get_remove"
      /\ cop[p].key \in DOMAIN items
      /\ now >= items[cop[p].key].expiration

\* C11: set(k, v) stores the entry (v, now + ttl) under k; as long as its
\* expiry is ahead, the entry is changed or removed only by a set or a
\* delete on k, whatever is done to other keys and whether or not the sweep
\* runs; and a get(k) that reads the clock before the expiry returns v.
C11_SetThenGet ==
    [][/\ \A p \in Procs :
            /\ (pc[p] = "set" /\ pc'[p] = "set_insert") =>
                 cop'[p].expiration = now + Ttl
            /\ (pc[p] = "set_insert" /\ pc'[p] = "set_done") =>
                 /\ cop[p].key \in DOMAIN items'
                 /\ items'[cop[p].key] = [value |-> cop[p].value,
                                          expiration |-> cop[p].expiration]
       /\ \A k \in DOMAIN items :
            ( /\ now < items[k].expiration
              /\ (k \notin DOMAIN items' \/ items'[k] # items[k]) )
            => \E p \in Procs : /\ cop[p].key = k
                                /\ pc[p] \in {"set_insert", "delete"}
                                /\ pc'[p] # pc[p]
       /\ \A p \in Procs :
            ( /\ pc[p] = "get_check"
              /\ now < items[cop[p].key].expiration
              /\ pc'[p] # "get_check" )
            => /\ pc'[p] = "get_done"
               /\ cop'[p].ret = [some |-> TRUE, value |-> items[cop[p].key].value]
      ]_vars

C11_Witness ==
    \E p \in Procs :
      /\ scenario = "cache"
      /\ pc[p] = "get_done"
      /\ cop[p].ret.some
      /\ cop[p].key \in DOMAIN items
      /\ cop[p].ret.value = items[cop[p].key].value
      /\ Cardinality(DOMAIN items) = 2
      /\ sweeper.next >= 1

\* C12: a get(k) that finds the entry of k present but expired returns: it
\* answers not-found, with the entry of k removed and the others as they
\* were.
C12_ExpiredGetEvicts ==
    \A p \in Procs :
      (pc[p] = "get_remove") ~> (pc[p] = "get_done" /\ ~cop[p].ret.some
                                 /\ cop[p].key \notin DOMAIN items)

\* C12, the half that holds: a get(k) of an absent key answers not-found
\* and changes nothing; no get changes the entry of another key.
C12_AbsentGetChangesNothing ==
    [][\A p \in Procs :
         /\ (pc[p] = "get" /\ cop[p].key \notin DOMAIN items /\ pc'[p] # "get") =>
              /\ pc'[p] = "get_done"
              /\ ~cop'[p].ret.some
              /\ items' = items
         /\ (pc[p] \in {"get", "get_check", "get_remove"} /\ pc'[p] # pc[p]) =>
              \A k \in DOMAIN items \ {cop[p].key} :
                k \in DOMAIN items' /\ items'[k] = items[k]
      ]_vars

C12_Witness ==
    \E p \in Procs :
      /\ scenario = "cache"
      /\ pc[p] = "get_remove"
      /\ p \in readers[shard[cop[p].key]]
      /\ \E q \in Procs \ {p} : pc[q] = "set_insert" /\ shard[cop[q].key] = shard[cop[p].key]

\* C13: a scan step of the sweep removes only entries whose expiry is not
\* after the clock at the removal and leaves every other entry as it is, in
\* particular one a set has just inserted or refreshed; an entry is written
\* whole, value and expiry of one set call together, and a get returns the
\* value of the entry in the map.
C13_SweepKeepsFresh ==
    [][/\ (sweeper.pc = "scan" /\ sweeper' # sweeper) =>
            /\ DOMAIN items' \subseteq DOMAIN items
            /\ \A k \in DOMAIN items :
                 IF k \in DOMAIN items' THEN items'[k] = items[k]
                 ELSE items[k].expiration <= now
       /\ \A k \in DOMAIN items' :
            (k \notin DOMAIN items \/ items'[k] # items[k]) =>
              \E p \in Procs : /\ pc[p] = "set_insert"
                               /\ pc'[p] = "set_done"
                               /\ cop[p].key = k
                               /\ items'[k] = [value |-> cop[p].value,
                                               expiration |-> cop[p].expiration]
       /\ \A p \in Procs :
            (cop'[p].ret.some /\ ~cop[p].ret.some) =>
              /\ cop[p].key \in DOMAIN items
              /\ cop'[p].ret.value = items[cop[p].key].value
      ]_vars

C13_Witness ==
    /\ scenario = "cache"
    /\ sweeper.pc = "scan"
    /\ sweeper.now >= 1
    /\ \E p \in Procs :
         /\ pc[p] = "set_done"
         /\ cop[p].key \in DOMAIN items
         /\ items[cop[p].key].value = cop[p].value
         /\ items[cop[p].key].expiration > now
         /\ shard[cop[p].key] >= sweeper.idx

\* the tasks inside record_transaction
Recording == {p \in Procs : pc[p] \in {"rec_total", "rec_outcome", "rec_fee", "rec_latency"}}

\* C14: every snapshot returned by get_stats, also one taken while
\* record_transaction calls are in flight, has
\* successful_transactions + failed_transactions = total_transactions.
C14_SnapshotBalanced ==
    \A p \in Procs :
      pc[p] = "stats_done" => stats[p].successful + stats[p].failed = stats[p].total

C14_Witness ==
    \E p \in Procs :
      /\ pc[p] = "stats_done"
      /\ stats[p].total = 1
      /\ stats[p].successful + stats[p].failed = 0
      /\ Recording # {}

\* C15: once the record_transaction calls made have all returned, whatever
\* their interleaving, total is their number, successful the number of
\* them with success = true, failed the number with success = false, and
\* total_latency_ms the sum of their latencies in whole milliseconds.
C15_NoLostUpdate ==
    (scenario = "metrics" /\ Recording = {}) =>
      /\ metrics.total_transactions = recorded.n
      /\ metrics.successful_transactions = recorded.successful
      /\ metrics.failed_transactions = recorded.failed
      /\ metrics.total_latency_ms = recorded.latency_ms

C15_Witness ==
    /\ scenario = "metrics"
    /\ \A p \in Procs : pc[p] = "record_done"
    /\ recorded.n = 3
    /\ metrics.successful_transactions = 2
    /\ metrics.failed_transactions = 1
    /\ metrics.total_latency_ms = 2

\* C16: record_transaction adds 1 to total; on success it adds 1 to
\* successful and the fee to total_fee_paid, on failure it adds 1 to failed
\* and leaves total_fee_paid alone whatever the fee; in both cases it adds
\* the whole milliseconds of the latency.  A snapshot of get_stats has
\* average_latency_ms = total_latency / total and success_rate =
\* successful / total when its total > 0, and 0 for both otherwise.
C16_RecordAndStats ==
    /\ [][\A p \in Procs :
            /\ (pc[p] = "rec_total" /\ pc'[p] # pc[p]) =>
                 metrics' = [metrics EXCEPT !.total_transactions = @ + 1]
            /\ (pc[p] = "rec_outcome" /\ pc'[p] # pc[p]) =>
                 IF mop[p].success
                 THEN /\ metrics' = [metrics EXCEPT !.successful_transactions = @ + 1]
                      /\ pc'[p] = "rec_fee"
                 ELSE /\ metrics' = [metrics EXCEPT !.failed_transactions = @ + 1]
                      /\ pc'[p] = "rec_latency"
            /\ (pc[p] = "rec_fee" /\ pc'[p] # pc[p]) =>
                 /\ mop[p].success
                 /\ metrics' = [metrics EXCEPT !.total_fee_paid = @ + mop[p].fee]
            /\ (pc[p] = "rec_latency" /\ pc'[p] # pc[p]) =>
                 metrics' = [metrics EXCEPT
                               !.total_latency_ms = @ + (mop[p].latency \div TicksPerMilli)]
         ]_vars
    /\ []((scenario = "metrics" /\ Recording = {}) =>
            metrics.total_fee_paid = recorded.fee)
    /\ [](\A p \in Procs :
            pc[p] = "stats_done" =>
              IF stats[p].total > 0
              THEN /\ stats[p].average_latency_ms.den > 0
                   /\ stats[p].average_latency_ms.num * stats[p].total
                        = stats[p].total_latency * stats[p].average_latency_ms.den
                   /\ stats[p].success_rate.den > 0
                   /\ stats[p].success_rate.num * stats[p].total
                        = stats[p].successful * stats[p].success_rate.den
              ELSE /\ stats[p].average_latency_ms = [num |-> 0, den |-> 1]
                   /\ stats[p].success_rate = [num |-> 0, den |-> 1])

C16_Witness ==
    \E p \in Procs :
      /\ pc[p] = "stats_done"
      /\ Recording = {}
      /\ stats[p].total = 2
      /\ stats[p].successful = 1
      /\ stats[p].failed = 1
      /\ stats[p].total_fee = 5
      /\ recorded.fee = 5
      /\ stats[p].success_rate = [num |-> 1, den |-> 2]
      /\ stats[p].average_latency_ms = [num |-> 1, den |-> 2]

\* a call of select_best_route that has returned a quote
Selected == scenario = "select" /\ sel.out.ok

\* the fee of a quote when its leading token parses, in hundredths
Parses(q) == FirstToken(q.estimated_fee) # NoToken
             /\ ParseF64(FirstToken(q.estimated_fee)) # NoParse
Magnitude(q, d) == IF Parses(q) THEN ParseF64(FirstToken(q.estimated_fee)) ELSE d

\* C17: for every non-empty quote list and every preference,
\* select_best_route returns one of the elements of the list; the list is
\* as it was.
C17_ReturnsAnInputQuote ==
    /\ [](scenario = "select" /\ sel.out # NoSelection =>
            IF Len(sel.quotes) = 0 THEN ~sel.out.ok
            ELSE /\ sel.out.ok
                 /\ \E n \in 1..Len(sel.quotes) : sel.out.value = sel.quotes[n])
    /\ [][sel'.quotes = sel.quotes /\ sel'.preference = sel.preference]_vars

C17_Witness ==
    /\ Selected
    /\ Len(sel.quotes) = 3
    /\ sel.preference = "cheapest"
    /\ sel.out.value = sel.quotes[2]
    /\ sel.out.value # sel.quotes[1]
    /\ sel.out.value # sel.quotes[3]

\* the two quotes are equal on the criterion of the preference
Tied(pref, a, b) ==
    CASE pref = "speed" -> a.estimated_time = b.estimated_time
      [] pref = "cost" -> Magnitude(a, F64Max) = Magnitude(b, F64Max)
      [] pref = "security" -> a.security_score = b.security_score
      [] OTHER -> /\ a.security_score = b.security_score
                  /\ a.estimated_time = b.estimated_time
                  /\ Magnitude(a, 100) = Magnitude(b, 100)

\* C18: under every preference the quote returned is the first, in input
\* order, of the quotes that tie with it on the criterion.
C18_FirstOfTied ==
    Selected =>
      LET first == CHOOSE n \in 1..Len(sel.quotes) :
                     /\ Tied(sel.preference, sel.quotes[n], sel.out.value)
                     /\ \A m \in 1..(n - 1) :
                          ~Tied(sel.preference, sel.quotes[m], sel.out.value)
      IN  sel.out.value = sel.quotes[first]

\* C18, the half that holds: under "speed" and "cost" the first of the tied
\* quotes is returned.
C18_FirstOfTiedMin ==
    Selected /\ sel.preference \in {"speed", "cost"} =>
      \A n \in 1..Len(sel.quotes) :
        Tied(sel.preference, sel.quotes[n], sel.out.value) =>
          \E m \in 1..n : sel.quotes[m] = sel.out.value

C18_Witness ==
    /\ Selected
    /\ sel.preference = "security"
    /\ Len(sel.quotes) = 2
    /\ sel.quotes[1].agent_id = "agent-001"
    /\ sel.quotes[2].agent_id = "agent-006"
    /\ sel.out.value = sel.quotes[2]

\* the sign of score(a) - score(b), for the score
\* 0.5*security + 0.3/(time + 1) + 0.2/(fee + 1) with an unparsable fee
\* counted as 1.0: the difference over the common denominator
\* 200 * (ta + 1) * (tb + 1) * (fa + 100) * (fb + 100), fees and security
\* in hundredths
ScoreDiff(a, b) ==
    LET fa == Magnitude(a, 100)
        fb == Magnitude(b, 100)
    IN  (a.security_score - b.security_score)
          * (a.estimated_time + 1) * (b.estimated_time + 1) * (fa + 100) * (fb + 100)
        + 60 * (b.estimated_time - a.estimated_time) * (fa + 100) * (fb + 100)
        + 4000 * (fb - fa) * (a.estimated_time + 1) * (b.estimated_time + 1)

\* C19: under "balanced", and under every preference that is none of
\* speed, cost and security, no quote of the input has a higher score than
\* the one returned; for the quotes A and B of the mock negotiator A is
\* returned in either order.
C19_BalancedMaximizes ==
    Selected /\ sel.preference \notin {"speed", "cost", "security"} =>
      /\ \A n \in 1..Len(sel.quotes) : ScoreDiff(sel.quotes[n], sel.out.value) <= 0
      /\ ( /\ Len(sel.quotes) = 2
           /\ {sel.quotes[1].agent_id, sel.quotes[2].agent_id} = {"agent-001", "agent-002"} )
         => sel.out.value.agent_id = "agent-001"

C19_Witness ==
    /\ Selected
    /\ sel.preference = "balanced"
    /\ Len(sel.quotes) = 3
    /\ sel.quotes[1].agent_id = "agent-002"
    /\ sel.quotes[2].agent_id = "agent-004"
    /\ sel.quotes[3].agent_id = "agent-001"
    /\ sel.out.value.agent_id = "agent-001"

\* C20, as stated: under "cost" the quote returned has the least fee of the
\* input, and a quote whose fee does not parse is returned only when it is
\* the only quote.
C20_Original ==
    Selected /\ sel.preference = "cost" =>
      /\ \A n \in 1..Len(sel.quotes) :
           Parses(sel.quotes[n]) =>
             /\ Parses(sel.out.value)
             /\ Magnitude(sel.out.value, 0) <= Magnitude(sel.quotes[n], 0)
      /\ ~Parses(sel.out.value) => Len(sel.quotes) = 1

\* C20, amended: under "cost" the quote returned has the least fee of the
\* input, and a quote whose fee does not parse is returned only when no
\* quote of the input has a fee that parses.
C20_CostMinimizes ==
    Selected /\ sel.preference = "cost" =>
      /\ \A n \in 1..Len(sel.quotes) :
           Parses(sel.quotes[n]) =>
             /\ Parses(sel.out.value)
             /\ Magnitude(sel.out.value, 0) <= Magnitude(sel.quotes[n], 0)
      /\ ~Parses(sel.out.value) => \A n \in 1..Len(sel.quotes) : ~Parses(sel.quotes[n])

C20_Witness ==
    /\ Selected
    /\ sel.preference = "cost"
    /\ Len(sel.quotes) = 3
    /\ sel.quotes[1].agent_id = "agent-004"
    /\ sel.quotes[2].agent_id = "agent-001"
    /\ sel.quotes[3].agent_id = "agent-003"
    /\ sel.out.value.agent_id = "agent-003"

\* C21: select_best_route fails on the empty list, with the error "no quotes
\* available", whatever the preference string; and it fails only then:
\* every non-empty list yields a quote.
C21_EmptyFailsOnlyThen ==
    scenario = "select" /\ sel.out # NoSelection =>
      /\ Len(sel.quotes) = 0 =>
           sel.out = [ok |-> FALSE, value |-> NoQuote, err |-> "no quotes available"]
      /\ ~sel.out.ok => sel.quotes = << >> /\ sel.out.err = "no quotes available"
      /\ Len(sel.quotes) > 0 => sel.out.ok /\ sel.out.err = ""

C21_Witness ==
    /\ scenario = "select"
    /\ sel.quotes = << >>
    /\ sel.preference = "security"
    /\ sel.out.err = "no quotes available"

\* an invocation that settled, wrote the cache and returned its response
Completed(p) == pc[p] = "returned" /\ inv[p].result.ok /\ InLog(p, "cache_set")

\* two requests with one (intent_type, amount, asset) that differ in all of
\* recipient, source chain, target chain, reference_id and is_shielded
Collide(r1, r2) ==
    /\ r1.intent_type = r2.intent_type
    /\ r1.amount = r2.amount
    /\ r1.asset = r2.asset
    /\ r1.recipient # r2.recipient
    /\ r1.source_chain # r2.source_chain
    /\ r1.target_chain # r2.target_chain
    /\ r1.reference_id # r2.reference_id
    /\ r1.is_shielded # r2.is_shielded

\* the entries of the map that hold the response given
EntriesOf(resp) == {k \in DOMAIN items : items[k].value = resp}

\* C22: once a valid request R1 has completed and while the entry it wrote
\* is in the cache, an invocation of a colliding request R2 finds that entry
\* at its lookup; if the entry is unexpired when get tests it, get returns
\* R1's response, and the invocation returns it unchanged (tx_hash, status,
\* block_height, fee_used) with no settlement and no cache write.
C22_CollisionHits ==
    [][\A p, q \in Procs :
         ( /\ p # q
           /\ Completed(p)
           /\ Collide(inv[p].req, inv[q].req)
           /\ EntriesOf(inv[p].result.value) # {} )
         => /\ (pc[q] = "get" /\ pc'[q] # "get") => pc'[q] = "get_check"
            /\ ( /\ pc[q] = "get_check"
                 /\ pc'[q] # "get_check"
                 /\ \E k \in EntriesOf(inv[p].result.value) : now < items[k].expiration )
               => /\ pc'[q] = "get_done"
                  /\ cop'[q].ret = [some |-> TRUE, value |-> inv[p].result.value]
            /\ ( /\ pc[q] = "get_done"
                 /\ pc'[q] # "get_done"
                 /\ cop[q].ret = [some |-> TRUE, value |-> inv[p].result.value] )
               => /\ pc'[q] = "returned"
                  /\ inv'[q].result = inv[p].result
                  /\ inv'[q].log = <<"validate", "cache_get">>
                  /\ uuids' = uuids
                  /\ items' = items
      ]_vars

C22_Witness ==
    \E p, q \in Procs :
      /\ Completed(p)
      /\ Collide(inv[p].req, inv[q].req)
      /\ pc[q] = "returned"
      /\ inv[q].result = inv[p].result
      /\ inv[q].result.value.fee_used = "0.05 USDC"
      /\ ~InLog(q, "settle")
      /\ uuids = 1

\* C23: two invocations with one cache key may both miss, settle and write.
\* Each cache write stores the writer's whole response under the key, so
\* at every moment the entry of a key is exactly the response of the last
\* write made under it, and a hit returns that response in full: the one
\* written last at the moment of the lookup, hence, once both invocations
\* have completed, the one of whichever wrote last.
C23_LastWriteWins ==
    /\ [](\A k \in DOMAIN items :
            /\ k \in DOMAIN written
            /\ items[k].value = written[k])
    /\ [][\A p \in Procs :
            /\ (pc[p] = "set_insert" /\ pc'[p] = "set_done") =>
                 /\ items'[cache_key(inv[p].req)].value = inv[p].resp
                 /\ written'[cache_key(inv[p].req)] = inv[p].resp
                 /\ \A k \in DOMAIN items \ {cache_key(inv[p].req)} : items'[k] = items[k]
            /\ (pc[p] = "get_check" /\ pc'[p] = "get_done") =>
                 cop'[p].ret = [some |-> TRUE, value |-> written[cache_key(inv[p].req)]]
            /\ (pc[p] = "get_done" /\ cop[p].ret.some /\ pc'[p] = "returned") =>
                 inv'[p].result = [ok |-> TRUE, code |-> "", value |-> cop[p].ret.value]
       ]_vars

\* both invocations missed and settled, the one that settled first wrote
\* last, and a later invocation hit and returned that response
C23_Witness ==
    \E p, q \in Procs :
      /\ p # q
      /\ uuids = 2
      /\ Completed(p)
      /\ inv[p].result.value.tx_hash = 2
      /\ cache_key(inv[p].req) \in DOMAIN items
      /\ items[cache_key(inv[p].req)].value.tx_hash = 1
      /\ written[cache_key(inv[p].req)].tx_hash = 1
      /\ pc[q] = "returned"
      /\ inv[q].log = <<"validate", "cache_get">>
      /\ inv[q].result.ok
      /\ inv[q].result.value = items[cache_key(inv[p].req)].value

\* the calls of the limiter that are between their first and their last
\* access to request_count
MidCount(p) == pc[p] \in {"check_store", "check_add", "check_sub", "reset_store"}

\* C24: an invocation can be aborted only where it is suspended: waiting for
\* the limiter's lock, for the quotes or for the settlement.  There it holds
\* neither the limiter's mutex nor a guard of the cache, it has not touched
\* request_count in the call under way, and it has built no response and
\* written no cache entry; so the abort changes neither the count, nor the
\* window, nor the cache, and afterwards the count is still the number of
\* calls admitted in the window and every entry of the cache is one a
\* completed write stored.
C24_AbortLeavesStateConsistent ==
    /\ [](\A p \in Procs :
            Suspended(p) \/ pc[p] = "aborted" =>
              /\ lim.holder # p
              /\ \A s \in Shards : p \notin readers[s]
              /\ cop[p] = NoCop
              /\ inv[p].resp = NoResponse
              /\ ~InLog(p, "cache_set")
              /\ \A k \in DOMAIN items : items[k].value.tx_hash <= uuids)
    /\ []((\E p \in Procs : pc[p] = "aborted")
            /\ lcfg.enabled /\ (\A p \in Procs : ~MidCount(p))
          => lim.request_count = win.admitted)
    /\ []((\E p \in Procs : pc[p] = "aborted") =>
            \A k \in DOMAIN items : k \in DOMAIN written /\ items[k].value = written[k])
    /\ [][\A p \in Procs :
            pc[p] # "aborted" /\ pc'[p] = "aborted" =>
              /\ lim' = lim
              /\ win' = win
              /\ items' = items
              /\ readers' = readers
              /\ metrics' = metrics
              /\ uuids' = uuids
       ]_vars

\* an invocation aborted while it waited for the settlement, beside one
\* that completed and whose entry is in the cache
C24_Witness ==
    /\ scenario = "concurrent"
    /\ \E p, q \in Procs :
         /\ pc[p] = "aborted"
         /\ InLog(p, "settle")
         /\ Completed(q)
         /\ items # << >>

\* a check() aborted while it waited for the lock that another check() held
C24_LimiterWitness ==
    /\ scenario = "limiter"
    /\ lcfg.enabled
    /\ \E p, q \in Procs :
         /\ pc[p] = "aborted"
         /\ pc[q] = "check_done"
         /\ lop[q].result = "ok"
         /\ lim.request_count = 1
         /\ calls = 2

\* C25: once the Cache has been dropped, the cleanup task comes to a stop:
\* from some moment on it is neither waiting for a tick nor sweeping, and
\* nothing keeps the map alive.
C25_SweeperStopsOnDrop ==
    dropped ~> (sweeper.pc \notin {"sleep", "scan"} /\ strong_count = 0)

\* what holds instead: the drop changes nothing of the task, which goes on
\* owning the map
C25_SweeperOutlivesCache ==
    /\ [](dropped => sweeper.pc \in {"sleep", "scan"} /\ strong_count = 1)
    /\ [][dropped' /\ ~dropped => sweeper' = sweeper /\ items' = items]_vars

\* the task sweeping the map of a Cache that is gone
C25_Witness ==
    /\ dropped
    /\ sweeper.pc = "scan"
    /\ items # << >>
    /\ strong_count = 1

\* C26: every call of Cache::get returns, whatever it finds: no entry, an
\* unexpired entry, or an expired entry that it goes on to remove.
C26_GetReturns ==
    \A p \in Procs :
      pc[p] \in {"get", "get_check", "get_remove"} ~> pc[p] = "get_done"

\* what holds instead: a get that does not return is one that found an
\* expired entry and waits, with its own read guard on the shard, for the
\* write lock of its remove; it stays there, and the entry stays in the map.
C26_BlockedOnOwnGuard ==
    /\ [](\A p \in Procs :
            pc[p] = "get_remove" =>
              /\ Has(cop[p].key)
              /\ ~Fresh(now, items[cop[p].key])
              /\ p \in readers[shard[cop[p].key]])
    /\ [][\A p \in Procs : pc[p] = "get_remove" => pc'[p] = "get_remove"]_vars

\* two gets of one expired entry, both waiting, the map untouched
C26_Witness ==
    /\ \A p \in Procs :
         /\ pc[p] = "get_remove"
         /\ p \in readers[shard[cop[p].key]]
         /\ Has(cop[p].key)
    /\ now = MaxTime

\* no invocation is under way
Quiescent == \A p \in Procs : pc[p] \in {"idle", "returned"}

\* C27: at quiescence total_fee_paid is the sum of the fee magnitudes of
\* the settlements performed; an invocation served from the cache, which
\* settles nothing, adds nothing to it.
C27_FeeCountsSettlements ==
    scenario = "pipeline" /\ cfg.enable_metrics /\ Quiescent =>
      metrics.total_fee_paid = settled

\* what holds instead: the sum is that of the settlements when the client
\* has no cache, and never below it; every invocation that returns a
\* response, settled or cached, adds the fee of that response.
C27_FeeCountsResponses ==
    /\ [](scenario = "pipeline" /\ cfg.enable_metrics /\ Quiescent =>
            /\ metrics.total_fee_paid >= settled
            /\ ~cfg.enable_caching => metrics.total_fee_paid = settled)
    /\ [](\A p \in Procs :
            pc[p] = "returned" /\ cfg.enable_metrics /\ inv[p].result.ok =>
              inv[p].recs[1].fee = FeeOr(inv[p].result.value.fee_used, 0))

\* one settlement with fee 0.05, then a hit: 0.10 recorded
C27_Witness ==
    /\ scenario = "pipeline"
    /\ Quiescent
    /\ calls = 2
    /\ uuids = 1
    /\ settled = 5
    /\ metrics.total_fee_paid = 10
    /\ metrics.successful_transactions = 2

\* no call on the metrics is under way
MetricsIdle == \A p \in Procs : pc[p] \in {"idle", "record_done", "stats_done", "clear_done"}

\* C28: once every record_transaction and reset call has returned,
\* successful + failed = total, however the calls were interleaved.
C28_ResetKeepsBalance ==
    scenario = "metrics" /\ MetricsIdle =>
      metrics.successful_transactions + metrics.failed_transactions
        = metrics.total_transactions

\* what holds instead: the counters never go below zero, and none exceeds
\* the number of record_transaction calls made
C28_CountersBounded ==
    scenario = "metrics" =>
      /\ metrics.total_transactions \in 0..recorded.n
      /\ metrics.successful_transactions \in 0..recorded.successful
      /\ metrics.failed_transactions \in 0..recorded.failed

\* all calls have returned and a success is counted that total lacks
C28_Witness ==
    /\ scenario = "metrics"
    /\ MetricsIdle
    /\ metrics.total_transactions = 0
    /\ metrics.successful_transactions = 1
    /\ metrics.failed_transactions = 0
    /\ calls = 2

\* C29: request_count, as current_count() reads it at any moment, check()
\* calls under way included, never exceeds max_requests.
C29_CountWithinLimit ==
    scenario = "limiter" => current_count <= lcfg.max_requests

\* what holds instead: the count exceeds max_requests by one, and only
\* while a refused check() is between its fetch_add and its fetch_sub
C29_ExceedsOnlyInsideCheck ==
    scenario = "limiter" =>
      /\ current_count <= lcfg.max_requests + 1
      /\ current_count > lcfg.max_requests =>
           \E p \in Procs : pc[p] = "check_sub" /\ lim.holder = p
      /\ (\A p \in Procs : pc[p] # "check_sub") => current_count <= lcfg.max_requests

\* a full window, and a further check() that has added one
C29_Witness ==
    /\ scenario = "limiter"
    /\ lcfg.enabled
    /\ lcfg.max_requests = 1
    /\ current_count = 2
    /\ \E p \in Procs : pc[p] = "check_sub"

\* no call on the limiter is under way
LimiterIdle == \A p \in Procs : pc[p] \in {"idle", "check_done", "reset_done"}

\* C30: on an enabled limiter with no call under way, remaining() > 0
\* exactly when a check() made at once would be admitted, at every moment,
\* those after the end of the window included.
C30_RemainingAgreesWithCheck ==
    scenario = "limiter" /\ lcfg.enabled /\ LimiterIdle =>
      (remaining > 0 <=> WouldAdmit)

\* what holds instead: remaining() > 0 implies that check() would be
\* admitted, and the two agree while the window has not elapsed; remaining()
\* is max_requests less the count, whatever the time
C30_AgreesWithinWindow ==
    scenario = "limiter" /\ lcfg.enabled /\ LimiterIdle =>
      /\ remaining > 0 => WouldAdmit
      /\ ~WindowElapsed(now, lim.window_start, lcfg.window) =>
           (remaining > 0 <=> WouldAdmit)
      /\ remaining = lcfg.max_requests - lim.request_count

\* the window is used up and over: remaining() is 0, check() would pass
C30_Witness ==
    /\ scenario = "limiter"
    /\ lcfg.enabled
    /\ LimiterIdle
    /\ lcfg.max_requests = 2
    /\ lcfg.window = 1
    /\ lim.request_count = 2
    /\ now - lim.window_start >= 1
    /\ remaining = 0
    /\ WouldAdmit

\* C31: for every non-empty quote list, under "speed" the quote returned
\* has the least estimated_time of the list, and under "security" the
\* greatest security_score.
C31_SpeedAndSecurity ==
    Selected =>
      /\ sel.preference = "speed" =>
           \A n \in 1..Len(sel.quotes) :
             sel.out.value.estimated_time <= sel.quotes[n].estimated_time
      /\ sel.preference = "security" =>
           \A n \in 1..Len(sel.quotes) :
             sel.out.value.security_score >= sel.quotes[n].security_score

\* under "security", the quote returned is not one of the fastest
C31_Witness ==
    /\ Selected
    /\ sel.preference = "security"
    /\ Len(sel.quotes) = 3
    /\ sel.out.value.security_score = 85
    /\ \E n \in 1..3 : sel.quotes[n].security_score = 70
    /\ \E n \in 1..3 : sel.quotes[n].security_score = 85 /\ sel.quotes[n].estimated_fee = "0.02 USDC"

\* the places of a list whose quote has the greatest balanced score
BestPlaces(qs) ==
    {n \in 1..Len(qs) : \A m \in 1..Len(qs) : ScoreDiff(qs[m], qs[n]) <= 0}

\* C32: for every quote list, a preference string that is none of "speed",
\* "cost" and "security" (the empty string and "Speed" among them) gives
\* the result "balanced" gives on that list: the same error for the empty
\* list, otherwise the same quote, the last of those with the greatest
\* balanced score.
C32_UnknownIsBalanced ==
    scenario = "select" /\ sel.out # NoSelection
    /\ sel.preference \notin {"speed", "cost", "security"} =>
      /\ sel.out = select_best_route(sel.quotes, "balanced")
      /\ Len(sel.quotes) > 0 =>
           /\ sel.out.ok
           /\ \E n \in BestPlaces(sel.quotes) :
                /\ sel.out.value = sel.quotes[n]
                /\ \A m \in BestPlaces(sel.quotes) : m <= n

\* "Speed" returns what "balanced" returns, and it is not the fastest quote
C32_Witness ==
    /\ Selected
    /\ sel.preference = "Speed"
    /\ Len(sel.quotes) = 2
    /\ sel.out.value = sel.quotes[1]
    /\ sel.out.value.estimated_time > sel.quotes[2].estimated_time
    /\ select_best_route(sel.quotes, "speed").value = sel.quotes[2]

\* the response an invocation has just built or, without a cache, returned
Produced(i) == IF i.resp # NoResponse THEN i.resp ELSE i.result.value

\* C33: the response a settlement produces has status "confirmed" and, as
\* fee_used, the estimated_fee of the quote that select_best_route returns
\* under "balanced" for the quotes this invocation fetched; it is built
\* only when that selection returned a quote.
C33_FeeOfBalancedRoute ==
    [][\A p \in Procs :
         pc[p] = "settle" /\ pc'[p] \notin {"settle", "aborted"} =>
           /\ inv[p].quotes # << >>
           /\ select_best_route(inv[p].quotes, "balanced").ok
           /\ inv[p].best = select_best_route(inv[p].quotes, "balanced").value
           /\ Produced(inv'[p]).fee_used =
                select_best_route(inv[p].quotes, "balanced").value.estimated_fee
           /\ Produced(inv'[p]).status = "confirmed"
           /\ Produced(inv'[p]).block_height = 1948201
           /\ Produced(inv'[p]).tx_hash = uuids'
           /\ uuids' = uuids + 1
      ]_vars

\* a settlement that charged the fee of agent-001, not the cheaper of the
\* two quotes fetched
C33_Witness ==
    \E p \in Procs :
      /\ scenario = "pipeline"
      /\ pc[p] = "set"
      /\ Len(inv[p].quotes) = 2
      /\ inv[p].quotes[2].estimated_fee = "0.03 USDC"
      /\ inv[p].resp.fee_used = "0.05 USDC"
      /\ inv[p].resp.status = "confirmed"

\* the step on which a check() of p returns the rate-limit error
Rejects(p) == pc[p] = "check_sub" /\ pc'[p] = "check_done"

\* C34: when a rejected check() returns, the count is the one the call
\* found when it took the lock, window_start is the one it found unless
\* the call itself rolled the window over, and the number of calls
\* admitted in the window and remaining() are what they were: a rejected
\* call consumes no capacity.
C34_RejectedCheckRestores ==
    [][\A p \in Procs :
         Rejects(p) =>
           /\ lop'[p].result = RateLimitExceeded
           /\ lim'.request_count = lop[p].count0
           /\ lim'.request_count = lop[p].current
           /\ lop[p].rolled =>
                /\ lim'.request_count = 0
                /\ lim'.window_start = lop[p].start0 + lop[p].elapsed
           /\ ~lop[p].rolled => lim'.window_start = lop[p].start0
           /\ win'.admitted = win.admitted
           /\ win'.admitted = lop[p].prior
           /\ remaining' = 0
           /\ lim'.holder = NoTask
      ]_vars

\* a rejected call has returned on a limiter of capacity 2 whose window
\* it did not move, and the count is still 2
C34_Witness ==
    \E p \in Procs :
      /\ scenario = "limiter"
      /\ pc[p] = "check_done"
      /\ lop[p].result = RateLimitExceeded
      /\ ~lop[p].rolled
      /\ lcfg.max_requests = 2
      /\ lop[p].count0 = 2
      /\ lim.request_count = 2
      /\ lim.window_start = lop[p].start0

\* the number of check() calls that returned Ok(()) at a time in a..b
AdmittedIn(a, b) ==
    Cardinality({n \in 1..Len(win.admits) : a <= win.admits[n] /\ win.admits[n] <= b})

\* C35: on an enabled limiter whose reset() has not run, every interval of
\* time shorter than the window holds at most 2 x max_requests successful
\* check() calls, and at most max_requests calls have succeeded since the
\* last rollover.
C35_BurstAtMostTwiceLimit ==
    scenario = "limiter" /\ lcfg.enabled /\ win.resets = 0 =>
      /\ \A a, b \in 0..MaxTime :
           a <= b /\ b - a < lcfg.window =>
             AdmittedIn(a, b) <= 2 * lcfg.max_requests
      /\ win.admitted <= lcfg.max_requests

\* the boundary-straddling burst: with max_requests 1 and a window of 2,
\* one call admitted at time 1 in the first window and one at time 2 after
\* the rollover, and a later call of the second window rejected
C35_Witness ==
    /\ scenario = "limiter"
    /\ lcfg = [max_requests |-> 1, window |-> 2, enabled |-> TRUE]
    /\ win.resets = 0
    /\ win.admits = <<1, 2>>
    /\ AdmittedIn(1, 2) = 2 * lcfg.max_requests
    /\ lim.window_start = 2
    /\ \E p \in Procs : pc[p] = "check_done" /\ lop[p].result = RateLimitExceeded
                        /\ lop[p].start0 = 2

\* C36: set(k, v2) on a key that has an entry replaces it.  The entry is
\* built with expiration = the time set read + ttl; the insert leaves the
\* map with the same keys, k holding v2 under that expiration whatever the
\* entry it had, and every other key its entry; a get that then finds the
\* entry fresh returns the value the entry holds.
C36_SetOverwrites ==
    [][\A p \in Procs :
         /\ pc[p] = "set" /\ pc'[p] = "set_insert" =>
              /\ cop'[p].expiration = now + Ttl
              /\ cop'[p].key = cop[p].key
              /\ cop'[p].value = cop[p].value
         /\ pc[p] = "set_insert" /\ pc'[p] = "set_done" /\ Has(cop[p].key) =>
              /\ DOMAIN items' = DOMAIN items
              /\ items'[cop[p].key] = CacheEntry(cop[p].value, cop[p].expiration)
              /\ \A k \in DOMAIN items \ {cop[p].key} : items'[k] = items[k]
         /\ pc[p] = "get_check" /\ pc'[p] = "get_done" /\ cop'[p].ret.some =>
              /\ cop'[p].ret = Some(items[cop[p].key].value)
              /\ now < items[cop[p].key].expiration
      ]_vars

\* the first call set k, the second set k again at time 1, and the cleanup
\* task has not run: k holds the second value, expiring at 1 + ttl
C36_Witness ==
    \E k \in Keys :
      /\ scenario = "cache"
      /\ calls = 2
      /\ now = 1
      /\ sweeper = Cache_new
      /\ \A p \in Procs : pc[p] = "set_done" /\ cop[p].key = k
      /\ \E p \in Procs : cop[p].value = ValueOf(1)
      /\ Has(k)
      /\ items[k] = CacheEntry(ValueOf(2), 1 + Ttl)

\* the entry of key k is one the cleanup task is due to remove: the scan
\* under way has still to visit its shard with a clock at or after its
\* expiry, or a tick of the interval at or after its expiry is still to come
SweepDue(k) ==
    \/ /\ sweeper.pc = "scan"
       /\ sweeper.idx <= shard[k]
       /\ sweeper.now >= items[k].expiration
    \/ /\ sweeper.pc \in {"sleep", "scan"}
       /\ \E t \in items[k].expiration..MaxTime :
            t >= sweeper.next /\ (t - sweeper.next) % Ttl = 0

\* key k is being read or has been read by the last call of some task
Read(k) ==
    \E p \in Procs :
      cop[p].key = k /\ pc[p] \in {"get", "get_check", "get_remove", "get_done"}

\* some key holds an entry that nobody reads and that a tick of the cleanup
\* task still to come is due to remove
Backlog == \E k \in DOMAIN items : ~Read(k) /\ SweepDue(k)

\* some get waits, holding its read guard, for the write lock of its remove
GetBlocked == \E p \in Procs : pc[p] = "get_remove"

\* C37: with the clock advancing and the cleanup task scheduled, an entry
\* that is written and then not read, overwritten or deleted is removed by
\* a sweep after its expiry.
C37_ExpiredEntriesSwept == []<>~Backlog

\* what holds instead: the entry is removed unless a get, of any key, has
\* met an expired entry and is blocked with its read guard held; and a scan
\* step removes from its shard exactly the entries with now >= expiration
C37_SweptUnlessGetBlocked ==
    /\ []<>(~Backlog \/ GetBlocked)
    /\ [][sweeper.pc = "scan" /\ sweeper' # sweeper =>
            \A k \in DOMAIN items :
              k \in DOMAIN items' <=>
                (shard[k] # sweeper.idx \/ sweeper.now < items[k].expiration)]_vars

\* an expired entry nobody reads, in a shard the cleanup task cannot reach:
\* the scan waits at shard 1 for the guard of a blocked get of another key
C37_Witness ==
    \E k \in Keys :
      /\ scenario = "cache"
      /\ now = MaxTime
      /\ Has(k)
      /\ items[k].expiration <= sweeper.now
      /\ shard[k] = LastShard
      /\ \A p \in Procs : cop[p].key # k
      /\ sweeper.pc = "scan"
      /\ sweeper.idx = 1
      /\ \E p \in Procs : pc[p] = "get_remove" /\ p \in readers[1]

\* the tasks between the lock().await of check() or reset() and the return
InCritical == {p \in Procs : pc[p] \in {"check_window", "check_store", "check_add",
                                        "check_sub", "reset_window", "reset_store"}}

\* C38: reset() writes window_start = the time it reads and then the count
\* 0, and returns with remaining() = max_requests and the window empty, so
\* that a check() at that moment is admitted when max_requests >= 1 and the
\* calls that follow in the window are admitted while fewer than
\* max_requests were admitted since; only the task holding the mutex is
\* between lock and return, and only it writes window_start and the count.
C38_ResetRollsOver ==
    /\ [](scenario = "limiter" =>
            /\ InCritical = (IF lim.holder = NoTask THEN {} ELSE {lim.holder})
            /\ \A p \in Procs :
                 pc[p] = "reset_store" => lim.request_count = lop[p].count0)
    /\ [][\A p \in Procs :
            /\ pc[p] = "reset_window" /\ pc'[p] # "reset_window" =>
                 /\ pc'[p] = "reset_store"
                 /\ lim'.window_start = now
                 /\ lim'.request_count = lim.request_count
            /\ pc[p] = "reset_store" /\ pc'[p] # "reset_store" =>
                 /\ pc'[p] = "reset_done"
                 /\ lim'.request_count = 0
                 /\ lim'.window_start = lim.window_start
                 /\ lim'.window_start <= now
                 /\ lim'.holder = NoTask
                 /\ current_count' = 0
                 /\ remaining' = lcfg.max_requests
                 /\ win'.calls = 0 /\ win'.admitted = 0
                 /\ lcfg.max_requests >= 1 => WouldAdmit'
            /\ pc[p] \in {"check_add", "check_sub"} /\ pc'[p] = "check_done" =>
                 (lop'[p].result = "ok" <=> lop[p].prior < lcfg.max_requests)
            /\ lim'.window_start # lim.window_start \/ lim'.request_count # lim.request_count =>
                 lim.holder # NoTask /\ pc'[lim.holder] # pc[lim.holder]
      ]_vars

\* max_requests 1 in a window of 2: a call admitted at time 1, a reset at
\* time 1, and a call admitted after it at the same time
C38_Witness ==
    /\ scenario = "limiter"
    /\ lcfg = [max_requests |-> 1, window |-> 2, enabled |-> TRUE]
    /\ win.resets = 1
    /\ win.admits = <<1, 1>>
    /\ lim = [window_start |-> 1, request_count |-> 1, holder |-> NoTask]
    /\ \E p, q \in Procs :
         /\ pc[p] = "reset_done" /\ lop[p].count0 = 1 /\ lop[p].start0 = 0
         /\ pc[q] = "check_done" /\ lop[q].result = "ok" /\ lop[q].start0 = 1
         /\ lop[q].count0 = 0 /\ ~lop[q].rolled

Max(a, b) == IF a > b THEN a ELSE b

\* what remaining() returns on a count of c
RemainingAt(c) == IF c >= lcfg.max_requests THEN 0 ELSE lcfg.max_requests - c

\* the steps on which a check() of p returns Ok(()) on an enabled limiter
Admits(p) == pc[p] = "check_add" /\ pc'[p] = "check_done"

C40_DisabledAlwaysAdmits ==
    /\ [](scenario = "limiter" /\ ~lcfg.enabled =>
            /\ lim.request_count = 0
            /\ current_count = 0
            /\ remaining = lcfg.max_requests
            /\ win.admits = << >>
            /\ \A p \in Procs :
                 /\ pc[p] \notin {"check_lock", "check_window", "check_store",
                                  "check_add", "check_sub"}
                 /\ pc[p] = "check_done" => lop[p].result = "ok")
    /\ [][scenario = "limiter" /\ ~lcfg.enabled =>
            /\ calls' = calls + 1 =>
                 /\ lim' = lim /\ win' = win
                 /\ \A p \in Procs :
                      pc'[p] = "check_done" => lop'[p].result = "ok"
                 /\ \E p \in Procs :
                      /\ pc'[p] \in {"check_done", "reset_lock"}
                      /\ \A q \in Procs \ {p} : pc'[q] = pc[q]
            /\ lim'.window_start # lim.window_start =>
                 \E p \in Procs : pc[p] = "reset_window" /\ pc'[p] = "reset_store"
      ]_vars

\* a disabled limiter with max_requests 0: four calls made, the last of
\* each task a check() that returned Ok(()), at the last instant; the
\* limiter is as constructed
C40_Witness ==
    /\ scenario = "limiter"
    /\ lcfg = [max_requests |-> 0, window |-> 1, enabled |-> FALSE]
    /\ calls = MaxChecks
    /\ now = MaxTime
    /\ win.resets = 0
    /\ lim = RateLimiter_new
    /\ \A p \in Procs : pc[p] = "check_done" /\ lop[p].result = "ok"

==========================================================================
